---- MODULE Spec2Model ----
(***************************************************************************)
(* leanbar: a status bar for Wayland/Hyprland.                             *)
(*                                                                         *)
(* Three threads share the StateBus (process-wide atomics) and one eventfd *)
(* wake counter:                                                           *)
(*   - the render/main thread (main.rs event loop, AppState of             *)
(*     app_state.rs: configure handler, redraw_and_commit, draw_bar),      *)
(*   - the clock/battery poller (threads/linux_poll.rs),                   *)
(*   - the workspace listener (threads/hyprland.rs).                       *)
(* Every atomic store, eventfd write and eventfd read of a producer or of  *)
(* the loop is one step of its thread; thread-local computation is folded  *)
(* into the neighbouring step.  One call of draw_bar, loads included, is   *)
(* one step of the render thread, taken after the step that drained the    *)
(* wake or handled the configure event.                                    *)
(*                                                                         *)
(* BATTERY_STATE and BATTERY_ESTIMATE_M are imported by linux_poll.rs and  *)
(* app_state.rs but their initialisers are not in main.rs; they start as 0 *)
(* (or 255, battery polling disabled, for BATTERY_STATE).                  *)
(*                                                                         *)
(* The source tree holds two generations of the render state: app_state.rs *)
(* (four slots, redraw_and_commit) and the AppState that main.rs still     *)
(* declares itself (three slots, the configure handler submits             *)
(* unconditionally).  Spec composes main.rs's event loop with app_state.rs;*)
(* SpecMain is the program main.rs alone describes.                        *)
(***************************************************************************)
EXTENDS Integers, Sequences, FiniteSets, TLC

(***************************************************************************)
(* Bounds of the model (not program constants).                            *)
(***************************************************************************)
MaxInputs == 1
MaxConfigures == 2
\* ticks of the poller when it is looked at alone
MaxTicks == 32
\* the surface sizes a configure event sets when the clear step is looked
\* at: widths from 1 on, heights from the 21 rows on that the glyphs of
\* FontCache reach down to
MaxClearWidth == 200
MaxClearHeight == 23

(***************************************************************************)
(* Program constants.                                                      *)
(***************************************************************************)
DefaultWidth == 1920
BarHeight == 28
WsAreaMax == 600
CenterGap == 24
BatMaxWidth == 160
NumWorkspaces == 10
U8None == 255
U16None == 65535
BatDisabled == 255
BatteryPeriod == 30

Min(a, b) == IF a <= b THEN a ELSE b
Max(a, b) == IF a >= b THEN a ELSE b
\* usize::saturating_sub
SatSub(a, b) == IF a >= b THEN a - b ELSE 0

\* Option<T>
None == <<>>
Some(x) == <<x>>
IsSome(o) == o # <<>>
Unwrap(o) == o[1]

WsIndex == 1..NumWorkspaces

(***************************************************************************)
(* Glyph cache (font_renderer.rs): only the metrics the layout reads.      *)
(* numbers[d + 1] is the glyph of digit d.                                 *)
(***************************************************************************)
Glyph(w, h) == [width |-> w, height |-> h]

\* A cache as a 16 px monospace font rasterizes: ink widths differ per
\* digit, the space has no ink, AM/PM/Full are composed strings.
FontCache ==
    [numbers |-> [d \in 1..10 |-> IF d = 2 THEN Glyph(5, 12) ELSE Glyph(8, 12)],
     am |-> Glyph(18, 12), pm |-> Glyph(17, 12),
     slash |-> Glyph(7, 15), colon |-> Glyph(2, 9), space |-> Glyph(0, 0),
     percent |-> Glyph(9, 12), plus |-> Glyph(8, 8), minus |-> Glyph(6, 2),
     full |-> Glyph(30, 12)]

GlyphChoices == {None, Some(FontCache)}

\* the cache main.rs expects, with the two icons in front of date and time
\* (main.rs 184-185, 277, 325)
MainFontCache ==
    [f \in DOMAIN FontCache \cup {"calendar_icon", "time_icon"} |->
        IF f \in DOMAIN FontCache THEN FontCache[f] ELSE Glyph(14, 14)]
MainGlyphChoices == {None, Some(MainFontCache)}

(***************************************************************************)
(* Inputs of the environment.                                              *)
(***************************************************************************)
\* zwlr_layer_surface_v1.configure (serial left out): width, height as sent
ConfigureEvents ==
    { [width |-> 0, height |-> 0],
      [width |-> 0, height |-> 30],
      [width |-> 20, height |-> 0] }

(***************************************************************************)
(* State.                                                                  *)
(***************************************************************************)
VARIABLES
    \* StateBus: the process-wide atomics (main.rs 30-49)
    ACTIVE_WORKSPACE, WORKSPACES, TIME_HOURS, TIME_MINUTES,
    DATE_DAY, DATE_MONTH, DATE_YEAR,
    BATTERY_PERCENT, BATTERY_STATE, BATTERY_ESTIMATE_M,
    \* the eventfd counter behind wake_fd
    wake_fd,
    \* AppState (app_state.rs 27-54)
    buffer, pixels, pixels_len, width, height, configured,
    \* what the mapping behind pixels holds, where the glyphs of the cache
    \* carry their coverage; None otherwise
    pixel_data,
    force_full_redraw,
    last_active_ws, last_workspaces, last_h, last_m,
    last_day, last_month, last_year,
    last_bat_percent, last_bat_state, last_bat_est_m,
    glyphs,
    \* which AppState the binary was built from: "app_state" or "main"
    generation,
    \* GlyphCache::load_or_build and the files it works on (font_renderer.rs)
    lob,
    \* one iteration of draw_glyph's inner loop: its inputs and the pixel
    \* it leaves behind (app_state.rs 562-576)
    glyph_call,
    \* render thread: position, whether the loop was entered, the revents of
    \* the last poll, who called draw_bar
    rpc, started, revents, caller,
    \* what the last step of the render thread asked of the display
    out,
    \* display server and kernel: configure events not yet dispatched, how
    \* many the compositor may still send, live mappings and wl_buffers
    wl_queue, configures_left, live_maps, live_bufs,
    \* poller thread (linux_poll.rs): position, tick_counter, the clock and
    \* sysfs samples of the tick, its changed flag, ticks still modelled
    ppc, tick_counter, now, sysfs, changed, ticks_left,
    \* listener thread (hyprland.rs): position, the line or query result
    \* being handled, the workspace ids still to mark of the second query,
    \* event lines still modelled
    hpc, event, listed, events_left,
    \* history, for stating the properties: passes begun since the last
    \* store or configure; per StateBus field the count of stores, the
    \* count the running update of each producer leads to, the count
    \* announced by pings, by the last drained wake, and seen by the loads
    \* of the last pass; the workspace fields when the listener took up
    \* its current line and whether it has pinged for it
    passes_since_change, ver, goal, published, drained, seen,
    ev_pre, ev_pinged

busVars == <<ACTIVE_WORKSPACE, WORKSPACES, TIME_HOURS, TIME_MINUTES,
             DATE_DAY, DATE_MONTH, DATE_YEAR,
             BATTERY_PERCENT, BATTERY_STATE, BATTERY_ESTIMATE_M>>
bufVars == <<buffer, pixels, pixels_len, pixel_data, width, height, live_maps,
             live_bufs>>
lastVars == <<last_active_ws, last_workspaces, last_h, last_m,
              last_day, last_month, last_year,
              last_bat_percent, last_bat_state, last_bat_est_m>>
\* what is settled before the display is connected
startVars == <<glyphs, generation, lob, glyph_call>>
appVars == <<bufVars, lastVars, configured, force_full_redraw, startVars>>
renderVars == <<appVars, rpc, started, revents, caller, out>>
envVars == <<wl_queue, configures_left>>
pollVars == <<ppc, tick_counter, now, sysfs, changed, ticks_left>>
hyprVars == <<hpc, event, listed, events_left, ev_pre, ev_pinged>>
verVars == <<ver, goal, published, drained, seen>>
vars == <<busVars, wake_fd, renderVars, envVars, pollVars, hyprVars,
          verVars, passes_since_change>>

\* the StateBus fields, as <<name, index>> (index 0 for a scalar)
Scalar(name) == <<name, 0>>
WsField(i) == <<"WORKSPACES", i>>
Fields ==
    {Scalar(n) : n \in {"ACTIVE_WORKSPACE", "TIME_HOURS", "TIME_MINUTES",
                        "DATE_DAY", "DATE_MONTH", "DATE_YEAR",
                        "BATTERY_PERCENT", "BATTERY_STATE",
                        "BATTERY_ESTIMATE_M"}}
    \cup {WsField(i) : i \in WsIndex}

\* draw_bar's locals: the values its loads return (app_state.rs 256-280)
dl ==
    [active_ws |-> ACTIVE_WORKSPACE, current_ws |-> WORKSPACES, i |-> 0,
     h |-> TIME_HOURS, m |-> TIME_MINUTES,
     day |-> DATE_DAY, month |-> DATE_MONTH, year |-> DATE_YEAR,
     bat_percent |-> BATTERY_PERCENT, bat_state |-> BATTERY_STATE,
     bat_est_m_total |-> BATTERY_ESTIMATE_M]

\* the locals when draw_bar did not run
NoLocals ==
    [active_ws |-> 0, current_ws |-> [i \in WsIndex |-> FALSE], i |-> 0,
     h |-> 0, m |-> 0, day |-> 0, month |-> 0, year |-> 0,
     bat_percent |-> 0, bat_state |-> 0, bat_est_m_total |-> 0]

\* no draw_glyph call in any slot
NoCalls == [workspaces |-> <<>>, date |-> <<>>, time |-> <<>>, battery |-> <<>>]

\* a render step that sends nothing to the display
\* no slot was cleared
NoCleared == [workspaces |-> {}, date |-> {}, time |-> {}, battery |-> {}]

NoOut ==
    [wakes |-> 0, event |-> None, ack |-> FALSE, realloc |-> FALSE,
     replaced |-> FALSE, peak_maps |-> 0, peak_bufs |-> 0,
     drew |-> FALSE, trigger |-> "none", loaded |-> NoLocals,
     painted |-> {}, damage |-> <<>>, calls |-> NoCalls,
     cleared |-> NoCleared, written |-> {}, fault |-> "none",
     attach |-> FALSE, commit |-> FALSE]

(***************************************************************************)
(* Faulty variants of program steps.  Each property below is also checked  *)
(* against a program in which one step is replaced by its faulty variant,  *)
(* and must then fail.                                                     *)
(***************************************************************************)
\* the workspace slot is repainted on every pass
ws_changed_always == TRUE

\* the time slot is repainted only when a full redraw is forced
clock_changed_forced_only == force_full_redraw

\* handle_event pings right after storing ACTIVE_WORKSPACE, before the
\* occupied flag is stored
ping_without_mark(ws) == "ev_ping"

\* an eventfd created with EFD_SEMAPHORE: read() takes one wake
eventfd_read_semaphore(counter) == counter - 1

\* the loop repaints on a wake without looking at configured
redraw_unconditionally == TRUE

\* the handler allocates for the size as sent
size_as_sent(sent, default) == sent

\* the old allocation is not released before the new one is made
keep_old(live, had) == live

\* strip_prefix accepts any event name
strip_any_prefix(cs, prefix) == IF cs # <<>> THEN Some(Tail(cs)) ELSE None

\* every workspace number is drawn in the unfocused colour
ws_color_other(active_ws, ws_num) == "color_ws_other"

\* the percentage is always drawn as two digits
percent_two_digits(percent) == <<(percent \div 10) % 10, percent % 10>>

\* the hour is drawn as the 24-hour clock has it
display_h_24(h) == h

\* the sign is '-' whatever the state
sign_always_minus(state) == [name |-> "minus", index |-> 0]

\* the atlas holds PM before AM
as_slice_pm_first(cache) ==
    [k \in 1..10 |-> cache.numbers[k]]
        \o << cache.pm, cache.am, cache.slash, cache.colon, cache.space,
              cache.percent, cache.plus, cache.minus, cache.full >>

\* only the seconds of the modification time are compared
mtime_differs_secs(current_mtime, atlas_mtime_sec, atlas_mtime_nsec) ==
    current_mtime[1] # atlas_mtime_sec

\* load_or_build rebuilds whatever the first load returned
always_rebuild(cache) == "build"

\* main falls back to a built-in cache when load_or_build fails
taken_or_builtin(result) == <<FontCache>>

(***************************************************************************)
(* draw_bar, app_state.rs 245-536: the decisions of one repaint pass from  *)
(* the values it loads (dl) and the last-rendered values.                  *)
(***************************************************************************)
ws_changed ==
    \/ force_full_redraw
    \/ dl.active_ws # last_active_ws
    \/ \E i \in WsIndex : dl.current_ws[i] # last_workspaces[i]

clock_changed == force_full_redraw \/ dl.h # last_h \/ dl.m # last_m

date_changed ==
    \/ force_full_redraw
    \/ dl.day # last_day
    \/ dl.month # last_month
    \/ dl.year # last_year

bat_changed ==
    \/ force_full_redraw
    \/ dl.bat_percent # last_bat_percent
    \/ dl.bat_state # last_bat_state
    \/ dl.bat_est_m_total # last_bat_est_m

\* glyphs.numbers.iter().map(|g| g.width).max()
max_digit_width(g) ==
    CHOOSE w \in {g.numbers[d].width : d \in 1..10} :
        \A d \in 1..10 : g.numbers[d].width <= w

max_ampm_width(g) == Max(g.am.width, g.pm.width)

date_slot_width(g) == (max_digit_width(g) * 6) + (g.slash.width * 2) + 7

time_slot_width(g) ==
    (max_digit_width(g) * 4) + g.colon.width + g.space.width
        + max_ampm_width(g) + 5

screen_center == width \div 2

date_slot_x(g) ==
    SatSub(SatSub(screen_center, CenterGap \div 2), date_slot_width(g))

time_slot_x == screen_center + (CenterGap \div 2)

bat_slot_x == SatSub(width, BatMaxWidth)

\* which slots the pass clears and repaints
ws_painted == ws_changed
date_painted(g) == date_changed /\ date_slot_x(g) < width
time_painted == clock_changed /\ time_slot_x < width
bat_painted == bat_changed /\ bat_slot_x < width /\ dl.bat_state # BatDisabled

Rect(x, y, w, h) == <<x, y, w, h>>

ws_damage ==
    IF ws_painted THEN <<Rect(0, 0, Min(WsAreaMax, width), height)>> ELSE <<>>

date_damage(g) ==
    LET dmg_w == Min(date_slot_width(g), width - date_slot_x(g))
    IN  IF date_painted(g) /\ dmg_w > 0
        THEN <<Rect(date_slot_x(g), 0, dmg_w, height)>> ELSE <<>>

\* the faulty time slot reports its whole width as damaged
time_damage_unclipped(g) ==
    IF time_painted THEN <<Rect(time_slot_x, 0, time_slot_width(g), height)>>
    ELSE <<>>

time_damage(g) ==
    LET dmg_w == Min(time_slot_width(g), width - time_slot_x)
    IN  IF time_painted /\ dmg_w > 0
        THEN <<Rect(time_slot_x, 0, dmg_w, height)>> ELSE <<>>

bat_damage ==
    LET dmg_w == Min(BatMaxWidth, width - bat_slot_x)
    IN  IF bat_painted /\ dmg_w > 0
        THEN <<Rect(bat_slot_x, 0, dmg_w, height)>> ELSE <<>>

\* the early return of lines 287-289
nothing_changed ==
    ~ws_changed /\ ~clock_changed /\ ~date_changed /\ ~bat_changed

\* the block of lines 291-533 runs
draws == ~nothing_changed /\ IsSome(glyphs)

\* the Vec draw_bar returns
draw_bar_damage ==
    IF ~draws THEN <<>>
    ELSE ws_damage \o date_damage(Unwrap(glyphs))
             \o time_damage(Unwrap(glyphs)) \o bat_damage

\* the slots whose pixels the pass cleared and repainted
draw_bar_painted ==
    IF ~draws THEN {}
    ELSE (IF ws_painted THEN {"workspaces"} ELSE {})
         \cup (IF date_painted(Unwrap(glyphs)) THEN {"date"} ELSE {})
         \cup (IF time_painted THEN {"time"} ELSE {})
         \cup (IF bat_painted THEN {"battery"} ELSE {})

(***************************************************************************)
(* The clear step of a repainted slot: the ranges start..end of the pixel  *)
(* slice that are filled with zero, in bytes, as <<start, end>>.           *)
(***************************************************************************)
\* the workspace area, its width clipped to the buffer (app_state.rs 320-325)
ws_clear ==
    LET stride == width * 4
        ws_area_width == Min(WsAreaMax, width)
    IN  { <<y * stride, (y * stride) + (ws_area_width * 4)>> :
              y \in 0..(height - 1) }

\* the loop of the date, time and battery slot: a row is filled over the
\* whole slot width when the range ends inside the slice, and left alone
\* otherwise (app_state.rs 380-387, 418-425, 463-470)
slot_clear(slot_x, slot_width) ==
    LET len == width * height * 4
        stride == width * 4
        start(y) == (y * stride) + (slot_x * 4)
        end(y) == start(y) + (slot_width * 4)
    IN  { <<start(y), end(y)>> :
              y \in {r \in 0..(height - 1) : end(r) <= len} }

\* what one pass clears, per slot
draw_bar_cleared ==
    [workspaces |->
         IF "workspaces" \in draw_bar_painted THEN ws_clear ELSE {},
     date |->
         IF "date" \in draw_bar_painted
         THEN slot_clear(date_slot_x(Unwrap(glyphs)),
                         date_slot_width(Unwrap(glyphs)))
         ELSE {},
     time |->
         IF "time" \in draw_bar_painted
         THEN slot_clear(time_slot_x, time_slot_width(Unwrap(glyphs)))
         ELSE {},
     battery |->
         IF "battery" \in draw_bar_painted
         THEN slot_clear(bat_slot_x, BatMaxWidth) ELSE {}]

(***************************************************************************)
(* What a repainted slot holds: the draw_glyph calls of the slot, left to  *)
(* right.  A call names the glyph of the cache, its colour and the margin  *)
(* by which current_x advances beyond the glyph's width.                   *)
(***************************************************************************)
\* glyphs.numbers[d]
Digit(d) == [name |-> "numbers", index |-> d]
\* glyphs.colon, glyphs.am, ...
Named(n) == [name |-> n, index |-> 0]

Call(glyph, color, extra_margin) ==
    [glyph |-> glyph, color |-> color, margin |-> extra_margin]

\* the colour of a workspace number (app_state.rs 331-335)
ws_color(active_ws, ws_num) ==
    IF active_ws = ws_num THEN "color_ws_focused" ELSE "color_ws_other"

\* one pass of the loop over current_ws (app_state.rs 328-373), ws_num = i + 1
ws_calls(active_ws, current_ws, ws_num) ==
    IF current_ws[ws_num] \/ active_ws = ws_num
    THEN LET color == ws_color(active_ws, ws_num)
         IN  IF ws_num = 10
             THEN <<Call(Digit(1), color, 1), Call(Digit(0), color, 10)>>
             ELSE <<Call(Digit(ws_num), color, 10)>>
    ELSE <<>>

RECURSIVE draw_workspaces_from(_, _, _)
draw_workspaces_from(active_ws, current_ws, ws_num) ==
    IF ws_num > NumWorkspaces THEN <<>>
    ELSE ws_calls(active_ws, current_ws, ws_num)
             \o draw_workspaces_from(active_ws, current_ws, ws_num + 1)

draw_workspaces(active_ws, current_ws) ==
    draw_workspaces_from(active_ws, current_ws, 1)

\* app_state.rs 437-444 and 170-177
display_h(h) == IF h = 0 THEN 12 ELSE IF h > 12 THEN h - 12 ELSE h
am_pm(h) == IF h >= 12 THEN Named("pm") ELSE Named("am")

\* app_state.rs 446-452
draw_time(h, m) ==
    << Call(Digit(display_h(h) \div 10), "color_time", 1),
       Call(Digit(display_h(h) % 10), "color_time", 1),
       Call(Named("colon"), "color_time", 1),
       Call(Digit(m \div 10), "color_time", 1),
       Call(Digit(m % 10), "color_time", 1),
       Call(Named("space"), "color_time", 1),
       Call(am_pm(h), "color_time", 0) >>

\* app_state.rs 399-406
draw_date(day, month, year) ==
    << Call(Digit(day \div 10), "color_date", 1),
       Call(Digit(day % 10), "color_date", 1),
       Call(Named("slash"), "color_date", 1),
       Call(Digit(month \div 10), "color_date", 1),
       Call(Digit(month % 10), "color_date", 1),
       Call(Named("slash"), "color_date", 1),
       Call(Digit(year \div 10), "color_date", 1),
       Call(Digit(year % 10), "color_date", 0) >>

\* the digits of the percentage (app_state.rs 487-496)
percent_digits(percent) ==
    IF percent = 100 THEN <<1, 0, 0>>
    ELSE IF percent >= 10 THEN <<percent \div 10, percent % 10>>
    ELSE <<percent>>

\* (x as u8)
AsU8(x) == x % 256

\* the sign between percentage and estimate (app_state.rs 503-507, 225-229)
sign_glyph(state) == IF state = 2 THEN Named("plus") ELSE Named("minus")

\* app_state.rs 484-520
draw_battery(percent, state, est_m_total) ==
    IF state = 3 THEN <<Call(Named("full"), "color_bat", 0)>>
    ELSE LET est_h == AsU8(est_m_total \div 60)
             est_m == AsU8(est_m_total % 60)
             digits == percent_digits(percent)
         IN  [k \in 1..Len(digits) |-> Call(Digit(digits[k]), "color_bat", 1)]
             \o << Call(Named("percent"), "color_bat", 0),
                   Call(Named("space"), "color_bat", 1),
                   Call(Named("space"), "color_bat", 1),
                   Call(sign_glyph(state), "color_bat", 0),
                   Call(Named("space"), "color_bat", 1),
                   Call(Named("space"), "color_bat", 1),
                   Call(Digit(est_h \div 10), "color_bat", 1),
                   Call(Digit(est_h % 10), "color_bat", 1),
                   Call(Named("colon"), "color_bat", 1),
                   Call(Digit(est_m \div 10), "color_bat", 1),
                   Call(Digit(est_m % 10), "color_bat", 0) >>

\* the draw_glyph calls of the block of a slot, for the loaded values l
slot_calls(l, slot) ==
    CASE slot = "workspaces" -> draw_workspaces(l.active_ws, l.current_ws)
      [] slot = "date" -> draw_date(l.day, l.month, l.year)
      [] slot = "time" -> draw_time(l.h, l.m)
      [] slot = "battery" ->
             draw_battery(l.bat_percent, l.bat_state, l.bat_est_m_total)

\* the draw_glyph calls of one pass, per slot
draw_bar_calls ==
    LET pass == draw_bar_painted
    IN  [slot \in {"workspaces", "date", "time", "battery"} |->
            IF slot \in pass THEN slot_calls(dl, slot) ELSE <<>>]

(***************************************************************************)
(* The widths draw_bar centres and right-aligns the content by: the terms  *)
(* the functions add up, as <<glyph, margin>> (app_state.rs 146-243).      *)
(***************************************************************************)
Term(glyph, margin) == [glyph |-> glyph, margin |-> margin]

\* time_content_width's own conversion (app_state.rs 170-177)
width_display_h(h) == IF h = 0 THEN 12 ELSE IF h > 12 THEN h - 12 ELSE h
width_am_pm(h) == IF h >= 12 THEN Named("pm") ELSE Named("am")

time_content_terms(h, m) ==
    << Term(Digit(width_display_h(h) \div 10), 1),
       Term(Digit(width_display_h(h) % 10), 1),
       Term(Named("colon"), 1),
       Term(Digit(m \div 10), 1), Term(Digit(m % 10), 1),
       Term(Named("space"), 1),
       Term(width_am_pm(h), 0) >>

\* the digits of the percentage battery_content_width adds (204-219)
width_percent_digits(percent) ==
    IF percent = 100 THEN <<1, 0, 0>>
    ELSE IF percent >= 10 THEN <<percent \div 10, percent % 10>>
    ELSE <<percent>>

battery_content_terms(percent, state, est_m_total) ==
    IF state = 3 THEN <<Term(Named("full"), 0)>>
    ELSE LET est_h == AsU8(est_m_total \div 60)
             est_m == AsU8(est_m_total % 60)
             digits == width_percent_digits(percent)
         IN  [k \in 1..Len(digits) |-> Term(Digit(digits[k]), 1)]
             \o << Term(Named("percent"), 0),
                   Term(Named("space"), 1), Term(Named("space"), 1),
                   Term(sign_glyph(state), 0),
                   Term(Named("space"), 1), Term(Named("space"), 1),
                   Term(Digit(est_h \div 10), 1), Term(Digit(est_h % 10), 1),
                   Term(Named("colon"), 1),
                   Term(Digit(est_m \div 10), 1), Term(Digit(est_m % 10), 0) >>

\* date_content_width (app_state.rs 146-167)
date_content_terms(day, month, year) ==
    << Term(Digit(day \div 10), 1), Term(Digit(day % 10), 1),
       Term(Named("slash"), 1),
       Term(Digit(month \div 10), 1), Term(Digit(month % 10), 1),
       Term(Named("slash"), 1),
       Term(Digit(year \div 10), 1), Term(Digit(year % 10), 0) >>

\* glyphs.numbers is [RasterizedGlyph; 10]: an index above 9 panics
numbers_in_bounds(terms) ==
    \A k \in DOMAIN terms :
        terms[k].glyph.name = "numbers" => terms[k].glyph.index \in 0..9

\* the glyph of cache g a call or a term names
glyph_of(g, ref) ==
    IF ref.name = "numbers" THEN g.numbers[ref.index + 1] ELSE g[ref.name]

RECURSIVE content_width(_, _)
\* the sum a *_content_width function returns
content_width(g, terms) ==
    IF terms = <<>> THEN 0
    ELSE glyph_of(g, terms[1].glyph).width + terms[1].margin
             + content_width(g, Tail(terms))

(***************************************************************************)
(* The pixels of a pass.  A pixel of the slice is named by its index       *)
(* y * width + x and holds <<b, g, r, a>>; the slice is the function from  *)
(* the pixels that are not zero to what they hold.                         *)
(***************************************************************************)
\* app_state.rs 292-296
color_value(name) ==
    CASE name = "color_time" -> <<247, 166, 203, 255>>
      [] name = "color_ws_focused" -> <<255, 255, 255, 255>>
      [] name = "color_ws_other" -> <<247, 166, 203, 255>>
      [] name = "color_date" -> <<236, 199, 116, 255>>
      [] name = "color_bat" -> <<161, 227, 166, 255>>

\* the faulty body writes the colour as it is, with the scaled alpha
draw_pixel_straight(color, alpha, dst) ==
    IF alpha = 0 THEN dst
    ELSE <<color[1], color[2], color[3], AsU8((color[4] * alpha) \div 255)>>

\* app_state.rs 562-576; the products are u32 and cannot wrap
draw_pixel(color, alpha, dst) ==
    IF alpha = 0 THEN dst
    ELSE LET a == (color[4] * alpha) \div 255
             b == (color[1] * a) \div 255
             g == (color[2] * a) \div 255
             r == (color[3] * a) \div 255
         IN  <<AsU8(b), AsU8(g), AsU8(r), AsU8(a)>>

\* where current_x starts in a slot (app_state.rs 327, 389-391, 427-429, 474)
slot_start_x(g, l, slot) ==
    CASE slot = "workspaces" -> 10
      [] slot = "date" ->
             date_slot_x(g)
                 + (SatSub(date_slot_width(g),
                           content_width(g, date_content_terms(l.day, l.month,
                                                               l.year))) \div 2)
      [] slot = "time" ->
             time_slot_x
                 + (SatSub(time_slot_width(g),
                           content_width(g, time_content_terms(l.h, l.m))) \div 2)
      [] slot = "battery" ->
             SatSub(width,
                    10 + content_width(g, battery_content_terms(
                             l.bat_percent, l.bat_state, l.bat_est_m_total)))

RECURSIVE placed(_, _, _)
\* the arguments of the draw_glyph calls of a slot: draw_char centres the
\* glyph on the 28 rows and advances current_x (app_state.rs 392-397)
placed(g, calls, current_x) ==
    IF calls = <<>> THEN <<>>
    ELSE LET glyph == glyph_of(g, calls[1].glyph)
         IN  <<[glyph |-> glyph, color |-> color_value(calls[1].color),
                start_x |-> current_x,
                start_y |-> SatSub(28, glyph.height) \div 2]>>
             \o placed(g, Tail(calls), current_x + glyph.width + calls[1].margin)

\* glyph.coverage.len() and glyph.coverage[k]; a glyph given by its metrics
\* alone is solid ink
coverage_len(glyph) ==
    IF "coverage" \in DOMAIN glyph THEN Len(glyph.coverage)
    ELSE glyph.width * glyph.height
coverage_at(glyph, k) ==
    IF "coverage" \in DOMAIN glyph THEN glyph.coverage[k + 1] ELSE 255

\* the accesses of one draw_glyph call that are out of range, as
\* <<gy * glyph.width + gx, what is indexed>> (app_state.rs 546-576): the
\* rows are skipped from 28 on and the columns from stride / 4 on, the
\* coverage is read before the pixel is written
draw_glyph_faults(c) ==
    LET w == c.glyph.width
        h == c.glyph.height
        stride == width * 4
        len == width * height * 4
        passes(gy, gx) == c.start_y + gy < 28 /\ c.start_x + gx < stride \div 4
        dst_idx(gy, gx) == ((c.start_y + gy) * stride) + ((c.start_x + gx) * 4)
        \* the cells whose coverage byte lies beyond the vector
        unread == { k \in coverage_len(c.glyph)..((w * h) - 1) :
                        passes(k \div w, k % w) }
        \* the cells of the rows from the end of the slice on
        beyond == { k \in (SatSub(height, c.start_y) * w)..((w * h) - 1) :
                        /\ passes(k \div w, k % w)
                        /\ k < coverage_len(c.glyph)
                        /\ coverage_at(c.glyph, k) # 0
                        /\ dst_idx(k \div w, k % w) >= len }
    IN  IF coverage_len(c.glyph) = 0 THEN {}
        ELSE { <<k, "coverage">> : k \in unread }
             \cup { <<k, "pixels">> : k \in beyond }

\* the pixels a call writes and what it leaves in them
draw_glyph(slice_in, c) ==
    LET w == c.glyph.width
        h == c.glyph.height
        cell(i) == (((i \div width) - c.start_y) * w) + ((i % width) - c.start_x)
        written ==
            IF coverage_len(c.glyph) = 0 THEN {}
            ELSE { ((c.start_y + k[1]) * width) + c.start_x + k[2] :
                       k \in { x \in (0..(h - 1)) \X (0..(w - 1)) :
                                  /\ c.start_y + x[1] < 28
                                  /\ c.start_x + x[2] < width
                                  /\ coverage_at(c.glyph, (x[1] * w) + x[2]) # 0 } }
    IN  [i \in DOMAIN slice_in \cup written |->
            IF i \in written
            THEN draw_pixel(c.color, coverage_at(c.glyph, cell(i)),
                            IF i \in DOMAIN slice_in THEN slice_in[i]
                            ELSE <<0, 0, 0, 0>>)
            ELSE slice_in[i]]

RECURSIVE draw_glyphs(_, _)
draw_glyphs(slice_in, cs) ==
    IF cs = <<>> THEN slice_in
    ELSE draw_glyphs(draw_glyph(slice_in, cs[1]), Tail(cs))

\* slice[start..end].fill(0) over the ranges of a clear step
fill_zero(slice_in, ranges) ==
    [i \in { j \in DOMAIN slice_in :
                 ~\E r \in ranges : r[1] <= j * 4 /\ j * 4 < r[2] } |->
        slice_in[i]]

\* the blocks of draw_bar in the order they run
SlotOrder == <<"workspaces", "date", "time", "battery">>

\* the draw_glyph calls of a slot with their arguments
slot_placed(l, slot) ==
    placed(Unwrap(glyphs), slot_calls(l, slot),
           slot_start_x(Unwrap(glyphs), l, slot))

\* every glyph of the cache has the coverage its metrics ask for
complete(g) ==
    \/ "coverage" \notin DOMAIN g.space
    \/ /\ \A d \in 1..10 :
              coverage_len(g.numbers[d]) >= g.numbers[d].width * g.numbers[d].height
       /\ \A n \in DOMAIN g \ {"numbers"} :
              coverage_len(g[n]) >= g[n].width * g[n].height

\* the first access out of range in the block of a slot, if there is one:
\* battery_content_width (called at app_state.rs 472, before any battery
\* glyph is drawn) indexes glyphs.numbers out of bounds, or a draw_glyph
\* call indexes the coverage or the pixel slice out of bounds; with 28 rows
\* or more and complete coverage no call does, as draw_glyph skips the rows
\* from 28 on and the columns from stride / 4 on
slot_fault(slot) ==
    IF /\ slot = "battery"
       /\ ~numbers_in_bounds(battery_content_terms(
               dl.bat_percent, dl.bat_state, dl.bat_est_m_total))
    THEN Some("numbers")
    ELSE IF height >= 28 /\ complete(Unwrap(glyphs)) THEN None
    ELSE LET lowest(faults) ==
                 (CHOOSE x \in faults : \A y \in faults : x[1] <= y[1])[2]
             first_of(cs, bad) ==
                 IF bad = {} THEN None
                 ELSE Some(lowest(draw_glyph_faults(
                          cs[CHOOSE k \in bad : \A j \in bad : k <= j])))
             among(cs) ==
                 first_of(cs, { k \in DOMAIN cs : draw_glyph_faults(cs[k]) # {} })
         IN  among(slot_placed(dl, slot))

\* the blocks that run before the render thread, which is the main thread,
\* panics; all four when it does not
blocks_run ==
    LET before(bad) ==
            IF bad = {} THEN 4
            ELSE (CHOOSE k \in bad : \A j \in bad : k <= j) - 1
        among(pass) ==
            before({ k \in 1..4 : /\ SlotOrder[k] \in pass
                                  /\ IsSome(slot_fault(SlotOrder[k])) })
    IN  among(draw_bar_painted)

draw_bar_panics == blocks_run < 4

\* what the panic is about
draw_bar_fault(run) ==
    IF run < 4 THEN Unwrap(slot_fault(SlotOrder[run + 1])) ELSE "none"

\* the slots whose block has run to its end
draw_bar_completed(run) ==
    IF run = 4 THEN draw_bar_painted
    ELSE { SlotOrder[k] : k \in 1..run } \cap draw_bar_painted

RECURSIVE draw_bar_slice(_, _, _)
\* the slice after the blocks from the k-th to the last that ran
draw_bar_slice(slice_in, k, run) ==
    IF k > run THEN slice_in
    ELSE IF SlotOrder[k] \in draw_bar_painted
    THEN draw_bar_slice(
             draw_glyphs(fill_zero(slice_in, draw_bar_cleared[SlotOrder[k]]),
                         slot_placed(dl, SlotOrder[k])),
             k + 1, run)
    ELSE draw_bar_slice(slice_in, k + 1, run)

\* the pixels the draw_glyph calls of the pass wrote
draw_bar_written(run) ==
    UNION { DOMAIN draw_glyphs(<<>>, slot_placed(dl, slot)) :
                slot \in draw_bar_completed(run) }

(***************************************************************************)
(* draw_bar of the AppState main.rs declares, main.rs 138-347: three       *)
(* slots, icons in front of date and time, the pair centred as a whole.    *)
(***************************************************************************)
main_date_slot_width(g) ==
    g.calendar_icon.width + (max_digit_width(g) * 6) + (g.slash.width * 2) + 13

main_time_slot_width(g) ==
    g.time_icon.width + (max_digit_width(g) * 4) + g.colon.width
        + g.space.width + max_ampm_width(g) + 12

main_center_start(g) ==
    SatSub(width, main_date_slot_width(g) + CenterGap + main_time_slot_width(g))
        \div 2

main_date_slot_x(g) == main_center_start(g)

main_time_slot_x(g) ==
    main_center_start(g) + main_date_slot_width(g) + CenterGap

main_date_painted(g) == date_changed /\ main_date_slot_x(g) < width
main_time_painted(g) == clock_changed /\ main_time_slot_x(g) < width

main_date_damage(g) ==
    LET dmg_w == Min(main_date_slot_width(g), width - main_date_slot_x(g))
    IN  IF main_date_painted(g) /\ dmg_w > 0
        THEN <<Rect(main_date_slot_x(g), 0, dmg_w, height)>> ELSE <<>>

main_time_damage(g) ==
    LET dmg_w == Min(main_time_slot_width(g), width - main_time_slot_x(g))
    IN  IF main_time_painted(g) /\ dmg_w > 0
        THEN <<Rect(main_time_slot_x(g), 0, dmg_w, height)>> ELSE <<>>

main_nothing_changed == ~ws_changed /\ ~clock_changed /\ ~date_changed

main_draws == ~main_nothing_changed /\ IsSome(glyphs)

main_draw_bar_damage ==
    IF ~main_draws THEN <<>>
    ELSE ws_damage \o main_date_damage(Unwrap(glyphs))
             \o main_time_damage(Unwrap(glyphs))

main_draw_bar_painted ==
    IF ~main_draws THEN {}
    ELSE (IF ws_painted THEN {"workspaces"} ELSE {})
         \cup (IF main_date_painted(Unwrap(glyphs)) THEN {"date"} ELSE {})
         \cup (IF main_time_painted(Unwrap(glyphs)) THEN {"time"} ELSE {})

\* the draw_bar of the generation the binary was built from
pass_draws == IF generation = "main" THEN main_draws ELSE draws
pass_damage ==
    IF generation = "main" THEN main_draw_bar_damage ELSE draw_bar_damage
pass_painted ==
    IF generation = "main" THEN main_draw_bar_painted ELSE draw_bar_painted
\* the slot contents are modelled for app_state.rs only
pass_calls == IF generation = "main" THEN NoCalls ELSE draw_bar_calls
pass_cleared == IF generation = "main" THEN NoCleared ELSE draw_bar_cleared
\* main.rs draws no battery slot
pass_panics == generation # "main" /\ draw_bar_panics
pass_blocks_run == IF generation = "main" THEN 4 ELSE blocks_run
pass_completed(run) ==
    IF generation = "main" THEN main_draw_bar_painted
    ELSE draw_bar_completed(run)
\* the pixels are followed for app_state.rs only
pass_slice(run) ==
    IF IsSome(pixel_data) /\ generation # "main"
    THEN Some(draw_bar_slice(Unwrap(pixel_data), 1, run)) ELSE pixel_data
pass_written(run) ==
    IF IsSome(pixel_data) /\ generation # "main" THEN draw_bar_written(run)
    ELSE {}

\* draw_bar's guard on entry (app_state.rs 248-250, main.rs 141-143)
no_buffer(p, w, h) == p = "null" \/ w = 0 \/ h = 0

(***************************************************************************)
(* History bookkeeping shared by the actions.                              *)
(***************************************************************************)
NotLoaded == 0 - 1
NothingSeen == [f \in Fields |-> NotLoaded]
ZeroVer == [f \in Fields |-> 0]

\* a pass begins: one more pass since the last store or configure
PassBegins(n) == Min(n + 1, 2)

\* an atomic store to field f (Ordering::Release)
Stored(f) ==
    /\ ver' = [ver EXCEPT ![f] = @ + 1]
    /\ passes_since_change' = 0


(***************************************************************************)
(* The display server sends a configure event.                             *)
(***************************************************************************)
\* (the next one once the previous one was dispatched)
CompositorConfigure ==
    /\ configures_left > 0
    /\ wl_queue = <<>>
    /\ rpc \notin {"exited", "load"}
    /\ \E ev \in ConfigureEvents : wl_queue' = Append(wl_queue, ev)
    /\ configures_left' = configures_left - 1
    /\ UNCHANGED <<busVars, wake_fd, renderVars, pollVars, hyprVars,
                   verVars, passes_since_change>>

(***************************************************************************)
(* Render thread.                                                          *)
(***************************************************************************)
\* Dispatch<ZwlrLayerSurfaceV1>::event up to the call of draw_bar
\* (app_state.rs 634-699 and redraw_and_commit 125-130; main.rs 432-499).
\* The event is dispatched by the roundtrip before the loop (main.rs 671)
\* or by dispatch_pending in the loop (main.rs 712-719).
\* the size the handler allocates for (app_state.rs 642-643)
effective_size(sent, default) == IF sent = 0 THEN default ELSE sent

\* buffer.destroy() and munmap of the old allocation (app_state.rs 648-656):
\* how many are live afterwards
release_old(live, had) == live - (IF had THEN 1 ELSE 0)

Configure ==
    /\ rpc = "dispatch"
    /\ ~started \/ revents.wl
    /\ wl_queue # <<>>
    /\ LET ev == Head(wl_queue)
           w == effective_size(ev.width, DefaultWidth)
           h == effective_size(ev.height, BarHeight)
           resize == width # w \/ height # h
           had_buffer == IsSome(buffer)
           had_mapping == pixels # "null" /\ pixels_len > 0
           stride == w * 4
           size == stride * h
           bufs_after_destroy == release_old(live_bufs, had_buffer)
           maps_after_munmap == release_old(live_maps, had_mapping)
           \* ftruncate grows the new memfd with zero bytes
           zeroed == IF IsSome(glyphs) /\ "coverage" \in DOMAIN Unwrap(glyphs).space
                     THEN Some(<<>>) ELSE None
       IN  /\ wl_queue' = Tail(wl_queue)
           /\ IF resize
              THEN /\ width' = w
                   /\ height' = h
                   /\ pixels' = "mapped"
                   /\ pixels_len' = size
                   /\ pixel_data' = zeroed
                   /\ buffer' = Some([width |-> w, height |-> h,
                                      stride |-> stride, size |-> size])
                   /\ live_maps' = maps_after_munmap + 1
                   /\ live_bufs' = bufs_after_destroy + 1
              ELSE UNCHANGED bufVars
           /\ configured' = TRUE
           /\ force_full_redraw' = TRUE
           /\ out' = [NoOut EXCEPT
                          !.event = Some(ev), !.ack = TRUE, !.realloc = resize,
                          !.replaced = resize /\ had_buffer /\ had_mapping,
                          !.peak_maps =
                              IF resize THEN Max(live_maps, maps_after_munmap + 1)
                              ELSE live_maps,
                          !.peak_bufs =
                              IF resize THEN Max(live_bufs, bufs_after_destroy + 1)
                              ELSE live_bufs]
    /\ rpc' = "redraw"
    /\ caller' = "configure"
    /\ seen' = NothingSeen
    /\ passes_since_change' = PassBegins(0)
    /\ UNCHANGED <<busVars, wake_fd, lastVars, startVars, started,
                   revents, configures_left, pollVars, hyprVars,
                   ver, goal, published, drained>>

\* nothing (more) to dispatch: back to flush and poll (main.rs 689-692)
DispatchDone ==
    /\ rpc = "dispatch"
    /\ started
    /\ ~revents.wl \/ wl_queue = <<>>
    /\ rpc' = "poll"
    /\ out' = NoOut
    /\ UNCHANGED <<busVars, wake_fd, appVars, started, revents, caller,
                   envVars, pollVars, hyprVars, verVars, passes_since_change>>

\* the roundtrip is over: create the eventfd, start both threads, enter
\* the loop (main.rs 673-689)
EnterLoop ==
    /\ rpc = "dispatch"
    /\ ~started
    /\ wl_queue = <<>>
    /\ started' = TRUE
    /\ rpc' = "poll"
    /\ ppc' = "tick"
    /\ hpc' = "init_active"
    /\ out' = NoOut
    /\ UNCHANGED <<busVars, wake_fd, appVars, revents, caller, envVars,
                   tick_counter, now, sysfs, changed, ticks_left,
                   event, listed, events_left, ev_pre, ev_pinged,
                   verVars, passes_since_change>>

\* main returns an error before the loop (the ? of main.rs 671-676) and
\* AppState is dropped (app_state.rs 582-594)
ExitAndDrop ==
    /\ rpc = "dispatch"
    /\ ~started
    /\ generation = "app_state"
    /\ rpc' = "exited"
    /\ buffer' = None
    /\ live_bufs' = live_bufs - (IF IsSome(buffer) THEN 1 ELSE 0)
    /\ IF pixels # "null" /\ pixels_len > 0
       THEN /\ live_maps' = live_maps - 1
            /\ pixels' = "null"
            /\ pixels_len' = 0
            /\ pixel_data' = None
       ELSE UNCHANGED <<live_maps, pixels, pixels_len, pixel_data>>
    /\ out' = NoOut
    /\ UNCHANGED <<busVars, wake_fd, width, height, lastVars, configured,
                   force_full_redraw, startVars, started, revents,
                   caller, envVars, pollVars, hyprVars, verVars,
                   passes_since_change>>

\* poll(&mut poll_fds, None) returns (main.rs 692-694, 712)
Poll ==
    /\ rpc = "poll"
    /\ wake_fd > 0 \/ wl_queue # <<>>
    /\ revents' = [wake |-> wake_fd > 0, wl |-> wl_queue # <<>>]
    /\ rpc' = "polled"
    /\ out' = NoOut
    /\ UNCHANGED <<busVars, wake_fd, appVars, started, caller, envVars,
                   pollVars, hyprVars, verVars, passes_since_change>>

\* read(&wake_fd, &mut buf): the counter is returned and reset; then
\* draw_bar is entered if the surface is configured (main.rs 694-698)
\* the counter after read() on an eventfd without EFD_SEMAPHORE
eventfd_read(counter) == 0

\* the wake leads to a repaint pass (main.rs 697; draw_bar's guard)
redraw_on_wake == configured /\ ~no_buffer(pixels, width, height)

DrainWake ==
    /\ rpc = "polled"
    /\ revents.wake
    /\ wake_fd' = eventfd_read(wake_fd)
    /\ drained' = published
    /\ out' = [NoOut EXCEPT !.wakes = wake_fd]
    /\ IF redraw_on_wake
       THEN /\ rpc' = "redraw"
            /\ caller' = "wake"
            /\ passes_since_change' = PassBegins(passes_since_change)
       ELSE /\ rpc' = "dispatch"
            /\ UNCHANGED <<caller, passes_since_change>>
    /\ seen' = NothingSeen
    /\ UNCHANGED <<busVars, appVars, started, revents, envVars, pollVars,
                   hyprVars, ver, goal, published>>

\* the wake fd was not readable (main.rs 694)
NoWake ==
    /\ rpc = "polled"
    /\ ~revents.wake
    /\ rpc' = "dispatch"
    /\ out' = NoOut
    /\ UNCHANGED <<busVars, wake_fd, appVars, started, revents, caller,
                   envVars, pollVars, hyprVars, verVars, passes_since_change>>

(***************************************************************************)
(* draw_bar (app_state.rs 245-536) and what its caller does                *)
(* with the damage: redraw_and_commit (app_state.rs 131-143) for the       *)
(* configure handler, main.rs 699-708 for a wake.  The main.rs generation  *)
(* of the configure handler (main.rs 499-509) attaches and commits         *)
(* whatever draw_bar returned.                                             *)
(***************************************************************************)
\* the caller attaches the buffer, sends the damage and commits
submits(damage) ==
    /\ IsSome(buffer)
    /\ \/ damage # <<>>
       \/ generation = "main" /\ caller = "configure"

\* the faulty pass records the loaded value of a slot it did not repaint
last_always_loaded(slot_painted, loaded, last) == loaded

\* a last-rendered field after the pass: assigned in the block of its slot
\* (app_state.rs 376-377, 413-415, 459-460, 527-529)
last_after(slot_painted, loaded, last) == IF slot_painted THEN loaded ELSE last

Redraw ==
    /\ rpc = "redraw"
    \* a pass that panics has gone through the blocks before the panic and
    \* returns nothing
    /\ \E run \in {pass_blocks_run} :
       \E painted \in {pass_completed(run)} :
       \E damage \in {pass_damage} :
       LET panics == run < 4
       IN  /\ last_active_ws' =
                  last_after("workspaces" \in painted, dl.active_ws, last_active_ws)
           /\ last_workspaces' =
                  last_after("workspaces" \in painted, dl.current_ws, last_workspaces)
           /\ last_day' = last_after("date" \in painted, dl.day, last_day)
           /\ last_month' = last_after("date" \in painted, dl.month, last_month)
           /\ last_year' = last_after("date" \in painted, dl.year, last_year)
           /\ last_h' = last_after("time" \in painted, dl.h, last_h)
           /\ last_m' = last_after("time" \in painted, dl.m, last_m)
           /\ last_bat_percent' =
                  last_after("battery" \in painted, dl.bat_percent, last_bat_percent)
           /\ last_bat_state' =
                  last_after("battery" \in painted, dl.bat_state, last_bat_state)
           /\ last_bat_est_m' =
                  last_after("battery" \in painted, dl.bat_est_m_total, last_bat_est_m)
           /\ force_full_redraw' =
                  IF pass_draws /\ ~panics THEN FALSE ELSE force_full_redraw
           /\ pixel_data' = pass_slice(run)
           /\ rpc' = IF panics THEN "panicked" ELSE "dispatch"
           /\ out' = IF panics
                     THEN [NoOut EXCEPT !.trigger = caller, !.loaded = dl,
                                        !.fault = draw_bar_fault(run)]
                     ELSE [NoOut EXCEPT
                          !.drew = TRUE, !.trigger = caller, !.loaded = dl,
                          !.painted = painted, !.damage = damage,
                          !.calls = pass_calls,
                          !.cleared = pass_cleared,
                          !.written = pass_written(run),
                          !.attach = submits(damage),
                          !.commit = submits(damage)]
    /\ caller' = "none"
    /\ seen' = ver
    /\ UNCHANGED <<busVars, wake_fd, buffer, pixels, pixels_len, width, height,
                   live_maps, live_bufs, configured, startVars,
                   started, revents, envVars, pollVars, hyprVars,
                   ver, goal, published, drained, passes_since_change>>

(***************************************************************************)
(* Poller thread, linux_poll.rs.                                           *)
(***************************************************************************)
\* what OffsetDateTime::now_local() can return in a tick
ClockSamples ==
    { [hour |-> 0, minute |-> 0, day |-> 3, month |-> 11, year |-> 26],
      [hour |-> 13, minute |-> 7, day |-> 3, month |-> 11, year |-> 26],
      [hour |-> 14, minute |-> 0, day |-> 3, month |-> 11, year |-> 26] }

NoClock == [hour |-> 0, minute |-> 0, day |-> 0, month |-> 0, year |-> 0]

\* what /sys/class/power_supply/BAT0 can hold in a tick: capacity and the
\* charge figures as Option<u32>, status as the trimmed string
SysfsSamples ==
    { [capacity |-> Some(100), status |-> "Full", current_now |-> Some(0),
       charge_now |-> Some(4000), charge_full |-> Some(4000)],
      [capacity |-> Some(7), status |-> "Discharging", current_now |-> Some(960),
       charge_now |-> Some(2000), charge_full |-> Some(4000)],
      [capacity |-> None, status |-> "", current_now |-> None,
       charge_now |-> None, charge_full |-> None] }

NoSysfs == [capacity |-> None, status |-> "", current_now |-> None,
            charge_now |-> None, charge_full |-> None]

UnwrapOr(o, d) == IF IsSome(o) THEN Unwrap(o) ELSE d

\* read_sysfs_u32(..capacity).unwrap_or(100) as u8
battery_capacity(s) == UnwrapOr(s.capacity, 100) % 256

\* the match on the status string
battery_state(s) ==
    CASE s.status = "Discharging" -> 1
      [] s.status = "Charging" -> 2
      [] s.status = "Full" -> 3
      [] OTHER -> 0

\* (hours * 60.0) as u16: the cast truncates and saturates.  The quotient
\* is taken exactly here; the f64 product can fall just below it (41/5*60
\* gives 491), and the samples are chosen where both agree.
minutes_u16(num, den) == Min((num * 60) \div den, U16None)

\* total_minutes of update_battery_state (linux_poll.rs 94-124)
battery_total_minutes(s) ==
    LET state == battery_state(s)
        current_now == UnwrapOr(s.current_now, 0)
        charge_now == UnwrapOr(s.charge_now, 0)
        charge_full == UnwrapOr(s.charge_full, charge_now)
    IN  IF (state = 1 \/ state = 2) /\ current_now > 0
        THEN IF state = 1 THEN minutes_u16(charge_now, current_now)
             ELSE IF charge_full > charge_now
                  THEN minutes_u16(charge_full - charge_now, current_now)
                  ELSE 0
        ELSE 0

PollerFrame ==
    UNCHANGED <<renderVars, envVars, hyprVars, published, drained, seen>>

\* where the tick goes after the clock fields: the battery every 30th tick
\* unless disabled, else the ping
after_date ==
    IF tick_counter % BatteryPeriod = 0 /\ BATTERY_STATE # BatDisabled
    THEN "battery" ELSE "ping"

after_clock(sample) ==
    IF DATE_DAY # sample.day THEN "store_day" ELSE after_date

\* a tick begins: now_local() fails, or returns the sample the tick works
\* with (linux_poll.rs 19-30)
PollerTick ==
    /\ ppc = "tick"
    /\ ticks_left > 0
    /\ ticks_left' = ticks_left - 1
    /\ \/ /\ tick_counter' = tick_counter + 1
          /\ UNCHANGED <<ppc, now, changed, goal>>
       \/ \E sample \in ClockSamples :
             /\ now' = sample
             /\ changed' = FALSE
             /\ ppc' = IF TIME_MINUTES # sample.minute
                       THEN "store_minutes" ELSE after_clock(sample)
             /\ goal' = [f \in Fields |->
                   IF /\ f \in {Scalar("TIME_MINUTES"), Scalar("TIME_HOURS")}
                      /\ TIME_MINUTES # sample.minute
                   THEN ver[f] + 1
                   ELSE IF /\ f \in {Scalar("DATE_DAY"), Scalar("DATE_MONTH"),
                                     Scalar("DATE_YEAR")}
                           /\ DATE_DAY # sample.day
                        THEN ver[f] + 1
                        ELSE goal[f]]
             /\ UNCHANGED tick_counter
    /\ UNCHANGED <<busVars, wake_fd, sysfs, ver, passes_since_change>>
    /\ PollerFrame

StoreMinutes ==
    /\ ppc = "store_minutes"
    /\ TIME_MINUTES' = now.minute
    /\ Stored(Scalar("TIME_MINUTES"))
    /\ ppc' = "store_hours"
    /\ UNCHANGED <<ACTIVE_WORKSPACE, WORKSPACES, TIME_HOURS, DATE_DAY,
                   DATE_MONTH, DATE_YEAR, BATTERY_PERCENT, BATTERY_STATE,
                   BATTERY_ESTIMATE_M, wake_fd, tick_counter, now, sysfs,
                   changed, ticks_left, goal>>
    /\ PollerFrame

StoreHours ==
    /\ ppc = "store_hours"
    /\ TIME_HOURS' = now.hour
    /\ Stored(Scalar("TIME_HOURS"))
    /\ changed' = TRUE
    /\ ppc' = after_clock(now)
    /\ UNCHANGED <<ACTIVE_WORKSPACE, WORKSPACES, TIME_MINUTES, DATE_DAY,
                   DATE_MONTH, DATE_YEAR, BATTERY_PERCENT, BATTERY_STATE,
                   BATTERY_ESTIMATE_M, wake_fd, tick_counter, now, sysfs,
                   ticks_left, goal>>
    /\ PollerFrame

StoreDay ==
    /\ ppc = "store_day"
    /\ DATE_DAY' = now.day
    /\ Stored(Scalar("DATE_DAY"))
    /\ ppc' = "store_month"
    /\ UNCHANGED <<ACTIVE_WORKSPACE, WORKSPACES, TIME_HOURS, TIME_MINUTES,
                   DATE_MONTH, DATE_YEAR, BATTERY_PERCENT, BATTERY_STATE,
                   BATTERY_ESTIMATE_M, wake_fd, tick_counter, now, sysfs,
                   changed, ticks_left, goal>>
    /\ PollerFrame

StoreMonth ==
    /\ ppc = "store_month"
    /\ DATE_MONTH' = now.month
    /\ Stored(Scalar("DATE_MONTH"))
    /\ ppc' = "store_year"
    /\ UNCHANGED <<ACTIVE_WORKSPACE, WORKSPACES, TIME_HOURS, TIME_MINUTES,
                   DATE_DAY, DATE_YEAR, BATTERY_PERCENT, BATTERY_STATE,
                   BATTERY_ESTIMATE_M, wake_fd, tick_counter, now, sysfs,
                   changed, ticks_left, goal>>
    /\ PollerFrame

StoreYear ==
    /\ ppc = "store_year"
    /\ DATE_YEAR' = now.year
    /\ Stored(Scalar("DATE_YEAR"))
    /\ changed' = TRUE
    /\ ppc' = after_date
    /\ UNCHANGED <<ACTIVE_WORKSPACE, WORKSPACES, TIME_HOURS, TIME_MINUTES,
                   DATE_DAY, DATE_MONTH, BATTERY_PERCENT, BATTERY_STATE,
                   BATTERY_ESTIMATE_M, wake_fd, tick_counter, now, sysfs,
                   ticks_left, goal>>
    /\ PollerFrame

\* where update_battery_state goes next, from the fields that still differ
after_percent(s) ==
    IF BATTERY_STATE # battery_state(s) THEN "store_bat_state"
    ELSE IF BATTERY_ESTIMATE_M # battery_total_minutes(s)
         THEN "store_bat_estimate" ELSE "ping"

after_state(s) ==
    IF BATTERY_ESTIMATE_M # battery_total_minutes(s)
    THEN "store_bat_estimate" ELSE "ping"

\* the 30th tick: tick_counter = 0 and update_battery_state reads sysfs
\* (linux_poll.rs 43-45, 63-86)
SampleBattery ==
    /\ ppc = "battery"
    /\ tick_counter' = 0
    /\ \E s \in SysfsSamples :
          /\ sysfs' = s
          /\ ppc' = IF BATTERY_PERCENT # battery_capacity(s)
                    THEN "store_bat_percent" ELSE after_percent(s)
          /\ goal' = [f \in Fields |->
                IF \/ f = Scalar("BATTERY_PERCENT")
                      /\ BATTERY_PERCENT # battery_capacity(s)
                   \/ f = Scalar("BATTERY_STATE")
                      /\ BATTERY_STATE # battery_state(s)
                   \/ f = Scalar("BATTERY_ESTIMATE_M")
                      /\ BATTERY_ESTIMATE_M # battery_total_minutes(s)
                THEN ver[f] + 1 ELSE goal[f]]
    /\ UNCHANGED <<busVars, wake_fd, now, changed, ticks_left, ver,
                   passes_since_change>>
    /\ PollerFrame

StoreBatteryPercent ==
    /\ ppc = "store_bat_percent"
    /\ BATTERY_PERCENT' = battery_capacity(sysfs)
    /\ Stored(Scalar("BATTERY_PERCENT"))
    /\ changed' = TRUE
    /\ ppc' = after_percent(sysfs)
    /\ UNCHANGED <<ACTIVE_WORKSPACE, WORKSPACES, TIME_HOURS, TIME_MINUTES,
                   DATE_DAY, DATE_MONTH, DATE_YEAR, BATTERY_STATE,
                   BATTERY_ESTIMATE_M, wake_fd, tick_counter, now, sysfs,
                   ticks_left, goal>>
    /\ PollerFrame

StoreBatteryState ==
    /\ ppc = "store_bat_state"
    /\ BATTERY_STATE' = battery_state(sysfs)
    /\ Stored(Scalar("BATTERY_STATE"))
    /\ changed' = TRUE
    /\ ppc' = after_state(sysfs)
    /\ UNCHANGED <<ACTIVE_WORKSPACE, WORKSPACES, TIME_HOURS, TIME_MINUTES,
                   DATE_DAY, DATE_MONTH, DATE_YEAR, BATTERY_PERCENT,
                   BATTERY_ESTIMATE_M, wake_fd, tick_counter, now, sysfs,
                   ticks_left, goal>>
    /\ PollerFrame

StoreBatteryEstimate ==
    /\ ppc = "store_bat_estimate"
    /\ BATTERY_ESTIMATE_M' = battery_total_minutes(sysfs)
    /\ Stored(Scalar("BATTERY_ESTIMATE_M"))
    /\ changed' = TRUE
    /\ ppc' = "ping"
    /\ UNCHANGED <<ACTIVE_WORKSPACE, WORKSPACES, TIME_HOURS, TIME_MINUTES,
                   DATE_DAY, DATE_MONTH, DATE_YEAR, BATTERY_PERCENT,
                   BATTERY_STATE, wake_fd, tick_counter, now, sysfs,
                   ticks_left, goal>>
    /\ PollerFrame

\* ping_main_thread: write 1 to the eventfd (main.rs 51-53); the ping
\* announces every store its update set out to make
PollerFields ==
    {Scalar(n) : n \in {"TIME_HOURS", "TIME_MINUTES", "DATE_DAY", "DATE_MONTH",
                        "DATE_YEAR", "BATTERY_PERCENT", "BATTERY_STATE",
                        "BATTERY_ESTIMATE_M"}}
ListenerFields == Fields \ PollerFields

Pinged(own) ==
    published' = [f \in Fields |->
                     IF f \in own THEN Max(published[f], goal[f])
                     ELSE published[f]]

\* the end of the tick: ping if anything changed, count the tick, sleep
\* (linux_poll.rs 51-58)
\* the faulty poller pings at the end of every tick with a successful read
ping_always(flag) == TRUE

\* `if changed` (linux_poll.rs 51)
should_ping(flag) == flag

PollerPing ==
    /\ ppc = "ping"
    /\ IF should_ping(changed)
       THEN wake_fd' = wake_fd + 1 /\ Pinged(PollerFields)
       ELSE UNCHANGED <<wake_fd, published>>
    /\ tick_counter' = tick_counter + 1
    /\ changed' = FALSE
    /\ now' = NoClock
    /\ sysfs' = NoSysfs
    /\ ppc' = "tick"
    /\ UNCHANGED <<busVars, ticks_left, ver, goal, passes_since_change,
                   renderVars, envVars, hyprVars, drained, seen>>

(***************************************************************************)
(* Listener thread, hyprland.rs.                                           *)
(***************************************************************************)
\* A line of text is a sequence of tokens: the three event prefixes are one
\* token each, everything else is single characters.
Digits == {"0", "1", "2", "3", "4", "5", "6", "7", "8", "9"}
DigitValue(c) ==
    CASE c = "0" -> 0 [] c = "1" -> 1 [] c = "2" -> 2 [] c = "3" -> 3
      [] c = "4" -> 4 [] c = "5" -> 5 [] c = "6" -> 6 [] c = "7" -> 7
      [] c = "8" -> 8 [] c = "9" -> 9

\* the decimal value of a sequence of digits
RECURSIVE Decimal(_)
Decimal(cs) ==
    IF cs = <<>> THEN 0
    ELSE Decimal(SubSeq(cs, 1, Len(cs) - 1)) * 10 + DigitValue(cs[Len(cs)])

\* str::parse::<u8>: an optional '+', then one or more digits, at most 255
ParseU8(cs) ==
    LET ds == IF cs # <<>> /\ cs[1] = "+" THEN Tail(cs) ELSE cs
    IN  IF /\ ds # <<>>
           /\ \A k \in 1..Len(ds) : ds[k] \in Digits
           /\ Decimal(ds) <= 255
        THEN Some(Decimal(ds)) ELSE None

\* str::trim
RECURSIVE TrimStart(_)
TrimStart(cs) ==
    IF cs # <<>> /\ cs[1] = " " THEN TrimStart(Tail(cs)) ELSE cs
RECURSIVE TrimEnd(_)
TrimEnd(cs) ==
    IF cs # <<>> /\ cs[Len(cs)] = " "
    THEN TrimEnd(SubSeq(cs, 1, Len(cs) - 1)) ELSE cs
Trim(cs) == TrimEnd(TrimStart(cs))

\* str::strip_prefix for one of the prefix tokens
StripPrefix(cs, prefix) ==
    IF cs # <<>> /\ cs[1] = prefix THEN Some(Tail(cs)) ELSE None

InRange(ws) == ws > 0 /\ ws <= 10

\* what handle_event decides for a line (hyprland.rs 89-117): which branch
\* stores, and the workspace number
handle_event(line) ==
    LET ev == Trim(line)
        focus == StripPrefix(ev, "workspace>>")
        create == StripPrefix(ev, "createworkspace>>")
        destroy == StripPrefix(ev, "destroyworkspace>>")
    IN  IF IsSome(focus)
        THEN IF IsSome(ParseU8(Unwrap(focus)))
             THEN [branch |-> "workspace", ws |-> Unwrap(ParseU8(Unwrap(focus)))]
             ELSE [branch |-> "none", ws |-> 0]
        ELSE IF IsSome(create)
        THEN IF /\ IsSome(ParseU8(Unwrap(create)))
                /\ InRange(Unwrap(ParseU8(Unwrap(create))))
             THEN [branch |-> "create", ws |-> Unwrap(ParseU8(Unwrap(create)))]
             ELSE [branch |-> "none", ws |-> 0]
        ELSE IF /\ IsSome(destroy)
                /\ IsSome(ParseU8(Unwrap(destroy)))
                /\ InRange(Unwrap(ParseU8(Unwrap(destroy))))
        THEN [branch |-> "destroy", ws |-> Unwrap(ParseU8(Unwrap(destroy)))]
        ELSE [branch |-> "none", ws |-> 0]

\* lines the event socket delivers
EventLines ==
    { <<"workspace>>", "2">>,
      <<"createworkspace>>", "3">>,
      <<"destroyworkspace>>", "1">>,
      <<"activewindow>>", "x">> }

\* `hyprctl activeworkspace`: the command fails or prints no parsable id
\* (None), or the u8 parsed after "workspace ID "
ActiveQueryResults == {None, Some(2)}

\* `hyprctl workspaces`: the command fails (None), or the u8 parsed from
\* each "workspace ID " line, in order
ListQueryResults == {None, Some(<<1, 2>>)}

NoEvent == [line |-> <<>>, branch |-> "none", ws |-> 0]

ListenerFrame ==
    UNCHANGED <<renderVars, envVars, pollVars, published, drained, seen>>

ClockAndBattery ==
    <<TIME_HOURS, TIME_MINUTES, DATE_DAY, DATE_MONTH, DATE_YEAR,
      BATTERY_PERCENT, BATTERY_STATE, BATTERY_ESTIMATE_M>>

Occurrences(seq, x) == Cardinality({k \in 1..Len(seq) : seq[k] = x})

\* init_workspaces, first query (hyprland.rs 57-63)
InitQueryActive ==
    /\ hpc = "init_active"
    /\ \E r \in ActiveQueryResults :
          IF IsSome(r)
          THEN /\ event' = [line |-> <<>>, branch |-> "init", ws |-> Unwrap(r)]
               /\ goal' = [f \in Fields |->
                     IF \/ f = Scalar("ACTIVE_WORKSPACE")
                        \/ InRange(Unwrap(r)) /\ f = WsField(Unwrap(r))
                     THEN ver[f] + 1 ELSE goal[f]]
               /\ hpc' = "init_store_active"
          ELSE /\ hpc' = "init_list"
               /\ UNCHANGED <<event, goal>>
    /\ UNCHANGED <<busVars, wake_fd, listed, events_left, ev_pre, ev_pinged,
                   ver, passes_since_change>>
    /\ ListenerFrame

\* hyprland.rs 64
InitStoreActive ==
    /\ hpc = "init_store_active"
    /\ ACTIVE_WORKSPACE' = event.ws
    /\ Stored(Scalar("ACTIVE_WORKSPACE"))
    /\ hpc' = IF InRange(event.ws) THEN "init_mark_active" ELSE "init_list"
    /\ UNCHANGED <<WORKSPACES, ClockAndBattery, wake_fd, event, listed,
                   events_left, ev_pre, ev_pinged, goal>>
    /\ ListenerFrame

\* hyprland.rs 65-67
InitMarkActive ==
    /\ hpc = "init_mark_active"
    /\ WORKSPACES' = [WORKSPACES EXCEPT ![event.ws] = TRUE]
    /\ Stored(WsField(event.ws))
    /\ hpc' = "init_list"
    /\ UNCHANGED <<ACTIVE_WORKSPACE, ClockAndBattery, wake_fd, event, listed,
                   events_left, ev_pre, ev_pinged, goal>>
    /\ ListenerFrame

\* the ping of hyprland.rs 19 is sent without the stores of the second query
ping_before_marking(ids) == "init_ping"

\* the listed workspaces are marked before init_workspaces returns
\* (hyprland.rs 75-84, 18-19)
after_list_query(ids) == IF ids # <<>> THEN "init_mark_listed" ELSE "init_ping"

\* init_workspaces, second query (hyprland.rs 73-81): the ids in range
InitQueryList ==
    /\ hpc = "init_list"
    /\ \E r \in ListQueryResults :
          LET ids == IF IsSome(r) THEN SelectSeq(Unwrap(r), InRange) ELSE <<>>
          IN  /\ listed' = ids
              /\ goal' = [f \in Fields |->
                    IF \E i \in WsIndex : f = WsField(i) /\ Occurrences(ids, i) > 0
                    THEN ver[f] + Occurrences(ids, f[2]) ELSE goal[f]]
              /\ hpc' = after_list_query(ids)
    /\ event' = NoEvent
    /\ UNCHANGED <<busVars, wake_fd, events_left, ev_pre, ev_pinged,
                   ver, passes_since_change>>
    /\ ListenerFrame

\* hyprland.rs 82, once per listed workspace
InitMarkListed ==
    /\ hpc = "init_mark_listed"
    /\ WORKSPACES' = [WORKSPACES EXCEPT ![Head(listed)] = TRUE]
    /\ Stored(WsField(Head(listed)))
    /\ listed' = Tail(listed)
    /\ hpc' = IF Tail(listed) = <<>> THEN "init_ping" ELSE "init_mark_listed"
    /\ UNCHANGED <<ACTIVE_WORKSPACE, ClockAndBattery, wake_fd, event,
                   events_left, ev_pre, ev_pinged, goal>>
    /\ ListenerFrame

\* hyprland.rs 19
InitPing ==
    /\ hpc = "init_ping"
    /\ wake_fd' = wake_fd + 1
    /\ Pinged(ListenerFields)
    /\ hpc' = "env"
    /\ UNCHANGED <<busVars, event, listed, events_left, ev_pre, ev_pinged,
                   ver, goal, passes_since_change, renderVars, envVars,
                   pollVars, drained, seen>>

ListenerLocalStep ==
    /\ UNCHANGED <<busVars, wake_fd, event, listed, events_left, ev_pre,
                   ev_pinged, verVars, passes_since_change, renderVars,
                   envVars, pollVars>>

\* the two env::var(..).expect(..) (hyprland.rs 22-25): both set, or the
\* thread panics
EnvLookup ==
    /\ hpc = "env"
    /\ \E set \in BOOLEAN : hpc' = IF set THEN "connect" ELSE "dead"
    /\ ListenerLocalStep

\* UnixStream::connect (hyprland.rs 28-30, 43-47)
Connect ==
    /\ hpc = "connect"
    /\ \E ok \in BOOLEAN : hpc' = IF ok THEN "read" ELSE "backoff"
    /\ ListenerLocalStep

\* thread::sleep(2 s) after a failed connect (hyprland.rs 48)
Backoff ==
    /\ hpc = "backoff"
    /\ hpc' = "connect"
    /\ ListenerLocalStep

\* reader.lines() yields an error or ends: break, reconnect (hyprland.rs 33-41)
ReadError ==
    /\ hpc = "read"
    /\ hpc' = "connect"
    /\ ListenerLocalStep

\* reader.lines() yields a line; handle_event trims and parses it
\* (hyprland.rs 35, 89-114)
ReadLine(lines) ==
    /\ hpc = "read"
    /\ events_left > 0
    /\ events_left' = events_left - 1
    /\ \E line \in lines :
          LET d == handle_event(line)
          IN  /\ event' = [line |-> line, branch |-> d.branch, ws |-> d.ws]
              /\ goal' = [f \in Fields |->
                    IF \/ d.branch = "workspace" /\ f = Scalar("ACTIVE_WORKSPACE")
                       \/ d.branch # "none" /\ InRange(d.ws) /\ f = WsField(d.ws)
                    THEN ver[f] + 1 ELSE goal[f]]
              /\ hpc' = CASE d.branch = "workspace" -> "ev_store_active"
                          [] d.branch = "create" -> "ev_create"
                          [] d.branch = "destroy" -> "ev_destroy"
                          [] OTHER -> "read"
    /\ ev_pre' = [active |-> ACTIVE_WORKSPACE, workspaces |-> WORKSPACES]
    /\ ev_pinged' = FALSE
    /\ UNCHANGED <<busVars, wake_fd, listed, ver, passes_since_change>>
    /\ ListenerFrame

\* hyprland.rs 95
\* what follows the store of ACTIVE_WORKSPACE (hyprland.rs 96-99)
after_active(ws) == IF InRange(ws) THEN "ev_mark_active" ELSE "ev_ping"

EvStoreActive ==
    /\ hpc = "ev_store_active"
    /\ ACTIVE_WORKSPACE' = event.ws
    /\ Stored(Scalar("ACTIVE_WORKSPACE"))
    /\ hpc' = after_active(event.ws)
    /\ UNCHANGED <<WORKSPACES, ClockAndBattery, wake_fd, event, listed,
                   events_left, ev_pre, ev_pinged, goal>>
    /\ ListenerFrame

\* hyprland.rs 96-98
EvMarkActive ==
    /\ hpc = "ev_mark_active"
    /\ WORKSPACES' = [WORKSPACES EXCEPT ![event.ws] = TRUE]
    /\ Stored(WsField(event.ws))
    /\ hpc' = "ev_ping"
    /\ UNCHANGED <<ACTIVE_WORKSPACE, ClockAndBattery, wake_fd, event, listed,
                   events_left, ev_pre, ev_pinged, goal>>
    /\ ListenerFrame

\* hyprland.rs 106
EvCreate ==
    /\ hpc = "ev_create"
    /\ WORKSPACES' = [WORKSPACES EXCEPT ![event.ws] = TRUE]
    /\ Stored(WsField(event.ws))
    /\ hpc' = "ev_ping"
    /\ UNCHANGED <<ACTIVE_WORKSPACE, ClockAndBattery, wake_fd, event, listed,
                   events_left, ev_pre, ev_pinged, goal>>
    /\ ListenerFrame

\* hyprland.rs 114
EvDestroy ==
    /\ hpc = "ev_destroy"
    /\ WORKSPACES' = [WORKSPACES EXCEPT ![event.ws] = FALSE]
    /\ Stored(WsField(event.ws))
    /\ hpc' = "ev_ping"
    /\ UNCHANGED <<ACTIVE_WORKSPACE, ClockAndBattery, wake_fd, event, listed,
                   events_left, ev_pre, ev_pinged, goal>>
    /\ ListenerFrame

\* hyprland.rs 99, 107, 115
EvPing ==
    /\ hpc = "ev_ping"
    /\ wake_fd' = wake_fd + 1
    /\ Pinged(ListenerFields)
    /\ ev_pinged' = TRUE
    /\ hpc' = "read"
    /\ UNCHANGED <<busVars, event, listed, events_left, ev_pre,
                   ver, goal, passes_since_change, renderVars, envVars,
                   pollVars, drained, seen>>

(***************************************************************************)
(* The program: after AppState::new and initialize_layer_surface, inside   *)
(* the roundtrip that precedes the loop; the threads are not yet started.  *)
(***************************************************************************)
InitBus ==
    /\ ACTIVE_WORKSPACE = 1
    /\ WORKSPACES = [i \in WsIndex |-> FALSE]
    /\ TIME_HOURS = 0
    /\ TIME_MINUTES = 0
    /\ DATE_DAY = 0
    /\ DATE_MONTH = 0
    /\ DATE_YEAR = 0
    /\ BATTERY_PERCENT = 100
    /\ BATTERY_STATE \in {0, BatDisabled}
    /\ BATTERY_ESTIMATE_M = 0
    /\ wake_fd = 0

InitAppState ==
    /\ buffer = None
    /\ pixels = "null"
    /\ pixels_len = 0
    /\ pixel_data = None
    /\ width = 0
    /\ height = 0
    /\ configured = FALSE
    /\ force_full_redraw = TRUE
    /\ last_active_ws = U8None
    /\ last_workspaces = [i \in WsIndex |-> FALSE]
    /\ last_h = U8None
    /\ last_m = U8None
    /\ last_day = U8None
    /\ last_month = U8None
    /\ last_year = U8None
    /\ last_bat_percent = U8None
    /\ last_bat_state = U8None
    /\ last_bat_est_m = U16None
    /\ live_maps = 0
    /\ live_bufs = 0

\* draw_glyph is not looked at
NoGlyphCall == [pc |-> "none"]

\* load_or_build has returned and main has taken its result (main.rs 601)
AfterStartup == [pc |-> "started"]

\* nothing is started: main is in the roundtrip before the loop
InitUnstarted ==
    /\ rpc = "dispatch"
    /\ started = FALSE
    /\ ppc = "unstarted"
    /\ hpc = "unstarted"

\* the locals of the three threads and the history
InitLocals ==
    /\ lob = AfterStartup
    /\ revents = [wake |-> FALSE, wl |-> FALSE]
    /\ caller = "none"
    /\ out = NoOut
    /\ tick_counter = 0
    /\ now = NoClock
    /\ sysfs = NoSysfs
    /\ changed = FALSE
    /\ event = NoEvent
    /\ listed = <<>>
    /\ ev_pre = [active |-> 1, workspaces |-> [i \in WsIndex |-> FALSE]]
    /\ ev_pinged = FALSE
    /\ passes_since_change = 0
    /\ ver = ZeroVer
    /\ goal = ZeroVer
    /\ published = ZeroVer
    /\ drained = ZeroVer
    /\ seen = NothingSeen

InitThreads ==
    /\ glyph_call = NoGlyphCall
    /\ InitLocals

\* everything but the generation, the glyph cache and the environment
InitProgram ==
    /\ InitBus
    /\ InitAppState
    /\ InitThreads
    /\ InitUnstarted

\* the environment delivers MaxInputs clock ticks and event lines in all
InputSplit ==
    \E t \in 0..MaxInputs :
        /\ ticks_left = t
        /\ events_left = MaxInputs - t

Init ==
    /\ InitProgram
    /\ generation = "app_state"
    /\ glyphs \in GlyphChoices
    /\ wl_queue = <<>>
    /\ configures_left = MaxConfigures
    /\ InputSplit

RenderStep ==
    \/ Configure \/ DispatchDone \/ EnterLoop \/ Poll \/ DrainWake \/ NoWake
    \/ Redraw

PollerStep ==
    \/ PollerTick \/ StoreMinutes \/ StoreHours
    \/ StoreDay \/ StoreMonth \/ StoreYear
    \/ SampleBattery \/ StoreBatteryPercent \/ StoreBatteryState
    \/ StoreBatteryEstimate \/ PollerPing

\* init_workspaces and the ping after it
ListenerInitStep ==
    \/ InitQueryActive \/ InitStoreActive \/ InitMarkActive
    \/ InitQueryList \/ InitMarkListed \/ InitPing

\* the connect loop and handle_event
ListenerLoopStep(lines) ==
    \/ EnvLookup \/ Connect \/ Backoff \/ ReadError \/ ReadLine(lines)
    \/ EvStoreActive \/ EvMarkActive \/ EvCreate \/ EvDestroy \/ EvPing

ListenerStep == ListenerInitStep \/ ListenerLoopStep(EventLines)

Next ==
    \/ CompositorConfigure
    \/ RenderStep
    \/ ExitAndDrop
    \/ PollerStep
    \/ ListenerStep

\* the whole program
Spec == Init /\ [][Next]_vars

(***************************************************************************)
(* Restrictions of Spec that are small enough to explore exhaustively:     *)
(* each leaves out the steps of a thread (a thread that is never scheduled *)
(* in these behaviours) or fixes what the display server sends.            *)
(***************************************************************************)
\* display server, render thread and poller; the listener never runs
NextSurface ==
    \/ CompositorConfigure
    \/ RenderStep
    \/ ExitAndDrop
    \/ PollerStep

InitSurface ==
    /\ InitProgram
    /\ generation = "app_state"
    /\ glyphs \in GlyphChoices
    /\ wl_queue = <<>>
    /\ configures_left = MaxConfigures
    /\ ticks_left = MaxInputs
    /\ events_left = 0

SpecSurface == InitSurface /\ [][NextSurface]_vars

\* the display server has answered the first commit with one configure
\* event and sends no other
InitFirstConfigure ==
    /\ InitProgram
    /\ generation = "app_state"
    /\ glyphs = Some(FontCache)
    /\ wl_queue = <<[width |-> 0, height |-> 0]>>
    /\ configures_left = 0
    /\ InputSplit

\* render thread and both producers
NextBus ==
    \/ Configure \/ DispatchDone \/ EnterLoop \/ Poll \/ DrainWake \/ Redraw
    \/ PollerStep
    \/ ListenerStep

SpecBus == InitFirstConfigure /\ [][NextBus]_vars

\* the binary built from the AppState that main.rs declares
InitMain ==
    /\ InitProgram
    /\ generation = "main"
    /\ glyphs \in MainGlyphChoices
    /\ wl_queue = <<>>
    /\ configures_left = MaxConfigures
    /\ ticks_left = 0
    /\ events_left = 0

NextMain ==
    \/ CompositorConfigure
    \/ RenderStep
    \/ ListenerInitStep

SpecMain == InitMain /\ [][NextMain]_vars

\* the listener alone, from the start of its thread: the loop was entered
\* before any configure event arrived
InitListener ==
    /\ InitBus
    /\ InitAppState
    /\ InitThreads
    /\ rpc = "poll"
    /\ started = TRUE
    /\ ppc = "tick"
    /\ hpc = "init_active"
    /\ glyphs \in GlyphChoices
    /\ generation = "app_state"
    /\ wl_queue = <<>>
    /\ configures_left = 0
    /\ ticks_left = 0
    /\ events_left = MaxInputs

\* more lines than EventLines: a non-numeric workspace, the last workspace,
\* the destruction of a workspace the second query may have listed, and
\* workspace numbers outside 1..10
ListenerLines ==
    EventLines \cup
    { <<"workspace>>", "x">>,
      <<"createworkspace>>", "1", "0">>,
      <<"destroyworkspace>>", "2">>,
      <<"workspace>>", "1", "1">>,
      <<"createworkspace>>", "0">>,
      <<"destroyworkspace>>", "1", "1">> }

NextListener == ListenerInitStep \/ ListenerLoopStep(ListenerLines)

SpecListener == InitListener /\ [][NextListener]_vars

(***************************************************************************)
(* Properties.                                                             *)
(***************************************************************************)
\* C1: idempotence of repaint.  When a repaint pass is the second one since
\* the last store to a StateBus field and the last configure event, it
\* returns no damage rectangle and repaints no slot.
C1_SecondPassIsEmpty ==
    out.drew /\ passes_since_change = 2 =>
        out.damage = <<>> /\ out.painted = {}

\* a wake-triggered second pass over a configured surface with glyphs, after
\* a first pass that rendered values the poller had stored
C1_Witness ==
    /\ out.drew
    /\ out.trigger = "wake"
    /\ passes_since_change = 2
    /\ IsSome(glyphs)
    /\ last_m = TIME_MINUTES
    /\ ver[Scalar("TIME_MINUTES")] > 0

\* C2: write-before-wake visibility.  A ping announces only stores that were
\* already performed, and a repaint pass triggered by a wake has loaded,
\* for every field, a value at least as recent as the one announced by the
\* pings the drained wake stood for.
C2_WakePassSeesPublished ==
    /\ \A f \in Fields : published[f] <= ver[f]
    /\ out.drew /\ out.trigger = "wake" =>
          \A f \in Fields : seen[f] >= drained[f]

\* a wake-triggered pass after both producers stored and pinged
C2_Witness ==
    /\ out.drew
    /\ out.trigger = "wake"
    /\ \E f \in PollerFields : drained[f] > 0
    /\ \E f \in ListenerFields : drained[f] > 0

\* every slot that fits the surface shows the current StateBus values
SlotsShowBus ==
    LET g == Unwrap(glyphs)
    IN  /\ last_active_ws = ACTIVE_WORKSPACE
        /\ last_workspaces = WORKSPACES
        /\ date_slot_x(g) < width =>
              last_day = DATE_DAY /\ last_month = DATE_MONTH
                  /\ last_year = DATE_YEAR
        /\ time_slot_x < width =>
              last_h = TIME_HOURS /\ last_m = TIME_MINUTES
        /\ bat_slot_x < width /\ BATTERY_STATE # BatDisabled =>
              /\ last_bat_percent = BATTERY_PERCENT
              /\ last_bat_state = BATTERY_STATE
              /\ last_bat_est_m = BATTERY_ESTIMATE_M

InitLive ==
    /\ InitProgram
    /\ generation = "app_state"
    /\ glyphs = Some(FontCache)
    /\ wl_queue = <<>>
    /\ configures_left = MaxConfigures
    /\ ticks_left = MaxInputs
    /\ events_left = 0

NextLive ==
    \/ CompositorConfigure
    \/ RenderStep
    \/ PollerStep

SpecLive ==
    /\ InitLive
    /\ [][NextLive]_vars
    /\ WF_vars(RenderStep)
    /\ WF_vars(PollerStep)

\* C4: wake coalescing.  Whatever count the pings have left in the eventfd,
\* the one read of a wake handling resets it to zero and is followed by at
\* most one repaint pass; whether a pass follows depends on the surface
\* only, never on the count, and after the pass the loop goes on to
\* dispatching.
C4_WakeCoalescing ==
    [][ /\ (rpc = "polled" /\ rpc' # "polled" /\ revents.wake) =>
              /\ wake_fd' = 0
              /\ out'.wakes = wake_fd
              /\ rpc' = (IF configured /\ IsSome(buffer)
                         THEN "redraw" ELSE "dispatch")
        /\ (rpc = "redraw" /\ rpc' # "redraw") => rpc' = "dispatch"
      ]_vars

\* one read has just taken the wakes of two pings, and one pass follows
C4_Witness ==
    /\ out.wakes >= 2
    /\ wake_fd = 0
    /\ rpc = "redraw"
    /\ caller = "wake"

\* C5: surface state machine.  configured becomes true only in the
\* configure handler, with the buffer allocated and mapped, and never
\* becomes false again; while it is false no repaint pass runs, nothing is
\* attached or committed, and a readable wake is read and dropped.
C5_SurfaceStateMachine ==
    /\ [](~configured =>
            /\ rpc # "redraw"
            /\ ~out.drew /\ ~out.attach /\ ~out.commit)
    /\ [][ /\ configured => configured'
           /\ (~configured /\ configured') =>
                 /\ IsSome(out'.event) /\ out'.ack
                 /\ IsSome(buffer') /\ pixels' = "mapped"
                 /\ live_maps' = 1 /\ live_bufs' = 1
           /\ (~configured /\ rpc = "polled" /\ rpc' # "polled"
                  /\ revents.wake) =>
                 wake_fd' = 0 /\ rpc' = "dispatch" /\ ~configured'
         ]_vars

\* a wake was read and dropped while the surface was unconfigured
C5_Witness ==
    /\ ~configured
    /\ out.wakes >= 1
    /\ wake_fd = 0
    /\ rpc = "dispatch"

\* C6: no submission on empty damage.  A repaint pass that returned no
\* damage rectangle is followed by no attach and no commit.
C6_NoSubmissionOnEmptyDamage ==
    out.drew /\ out.damage = <<>> => ~out.attach /\ ~out.commit

\* C7: configure defaults.  Right after the configure handler has sized the
\* buffer, the stored width is 1920 when the event carried width 0 and the
\* width sent otherwise, the stored height is 28 when the event carried
\* height 0 and the height sent otherwise, and both are at least 1.
C7_ConfigureDefaults ==
    IsSome(out.event) =>
        LET ev == Unwrap(out.event)
        IN  /\ width = (IF ev.width = 0 THEN 1920 ELSE ev.width)
            /\ height = (IF ev.height = 0 THEN 28 ELSE ev.height)
            /\ width >= 1 /\ height >= 1
            /\ IsSome(buffer)
            /\ Unwrap(buffer).width = width
            /\ Unwrap(buffer).height = height

\* a configure with width 0 and a height of its own was handled
C7_Witness ==
    /\ out.event = Some([width |-> 0, height |-> 30])
    /\ width = 1920
    /\ height = 30

\* the x positions a damage list covers over the full height
Covered(damage) ==
    {x \in 0..(width - 1) :
        \E k \in 1..Len(damage) :
            /\ damage[k][1] <= x /\ x < damage[k][1] + damage[k][3]
            /\ damage[k][2] = 0 /\ damage[k][4] = height}

\* C8: full redraw on configure.  The damage returned by the repaint pass of
\* a configure handler covers the whole buffer (0, 0, width, height).
C8_ConfigureDamageCoversBuffer ==
    out.drew /\ out.trigger = "configure" =>
        Covered(out.damage) = 0..(width - 1)

\* C9: pixel buffer lifecycle.  At most one mapping and one buffer handle
\* are live, also while the configure handler replaces them; a buffer in
\* use has pixels_len = width * height * 4 and stride width * 4; a
\* configure event of the current size leaves buffer and mapping alone; a
\* dropped AppState holds neither.
C9_BufferLifecycle ==
    /\ [](/\ live_maps <= 1 /\ live_bufs <= 1
          /\ out.peak_maps <= 1 /\ out.peak_bufs <= 1
          /\ live_maps = (IF pixels = "mapped" THEN 1 ELSE 0)
          /\ live_bufs = (IF IsSome(buffer) THEN 1 ELSE 0)
          /\ IsSome(buffer) =>
                /\ pixels = "mapped"
                /\ pixels_len = width * height * 4
                /\ Unwrap(buffer).stride = width * 4
                /\ Unwrap(buffer).size = pixels_len
          /\ out.realloc => live_maps = 1 /\ live_bufs = 1
          /\ rpc = "exited" => live_maps = 0 /\ live_bufs = 0)
    /\ [][ (IsSome(out'.event) /\ out' # out) =>
              LET ev == Unwrap(out'.event)
                  w == IF ev.width = 0 THEN 1920 ELSE ev.width
                  h == IF ev.height = 0 THEN 28 ELSE ev.height
              IN  IF w = width /\ h = height
                  THEN ~out'.realloc /\ UNCHANGED bufVars
                  ELSE out'.realloc /\ out'.replaced = IsSome(buffer)
         ]_vars

\* a configure of another size has replaced a live buffer and mapping
C9_Witness ==
    /\ out.realloc
    /\ out.replaced
    /\ live_maps = 1
    /\ live_bufs = 1
    /\ width = 20

\* the decimal numeral of a workspace number 1..10
Numeral(n) ==
    IF n = 10 THEN <<"1", "0">>
    ELSE <<CHOOSE c \in Digits : DigitValue(c) = n>>

\* the listener is through with the line it read last
LineHandled == hpc = "read" /\ event.line # <<>>

OthersUnchanged(n) ==
    \A j \in WsIndex : j # n => WORKSPACES[j] = ev_pre.workspaces[j]

\* C10: workspace event grammar.  Once the listener is through with a line:
\* for N in 1..10, `workspace>>N` has set the active workspace to N and
\* marked N occupied, `createworkspace>>N` has marked N occupied,
\* `destroyworkspace>>N` has cleared N's flag; every other flag is as
\* before, create and destroy left the active workspace as before; a line
\* with another prefix or without a number changed no field and pinged no
\* wake.
C10_EventGrammar ==
    LineHandled =>
        /\ \A n \in WsIndex :
              /\ event.line = <<"workspace>>">> \o Numeral(n) =>
                    /\ ACTIVE_WORKSPACE = n
                    /\ WORKSPACES[n]
                    /\ OthersUnchanged(n)
              /\ event.line = <<"createworkspace>>">> \o Numeral(n) =>
                    /\ WORKSPACES[n]
                    /\ OthersUnchanged(n)
                    /\ ACTIVE_WORKSPACE = ev_pre.active
              /\ event.line = <<"destroyworkspace>>">> \o Numeral(n) =>
                    /\ ~WORKSPACES[n]
                    /\ OthersUnchanged(n)
                    /\ ACTIVE_WORKSPACE = ev_pre.active
        /\ \/ event.line[1] \notin {"workspace>>", "createworkspace>>",
                                   "destroyworkspace>>"}
           \/ \E k \in 2..Len(event.line) : event.line[k] \notin Digits
           => /\ ACTIVE_WORKSPACE = ev_pre.active
              /\ WORKSPACES = ev_pre.workspaces
              /\ ~ev_pinged

\* `destroyworkspace>>2` was handled and cleared a flag that was set
C10_Witness ==
    /\ LineHandled
    /\ event.line = <<"destroyworkspace>>", "2">>
    /\ ev_pre.workspaces[2]
    /\ ~WORKSPACES[2]
    /\ ev_pinged

\* numerals of workspace numbers outside 1..10
OutOfRangeNumerals == {<<"0">>, <<"1", "1">>}

\* C11: out-of-range workspace numbers are ignored.  Once the listener is
\* through with `workspace>>N`, `createworkspace>>N` or
\* `destroyworkspace>>N` with N outside 1..10, no StateBus field has changed
\* and no wake was pinged; and the active workspace is always in 1..10.
C11_OutOfRangeIgnored ==
    /\ ACTIVE_WORKSPACE \in 1..10
    /\ (/\ LineHandled
        /\ event.line[1] \in {"workspace>>", "createworkspace>>",
                              "destroyworkspace>>"}
        /\ Tail(event.line) \in OutOfRangeNumerals)
       => /\ ACTIVE_WORKSPACE = ev_pre.active
          /\ WORKSPACES = ev_pre.workspaces
          /\ ~ev_pinged


(***************************************************************************)
(* Slot contents.  The producers have been running and have left the       *)
(* StateBus with some content and a wake pending when the first configure  *)
(* event arrives: the render thread drains the wake, runs the configure    *)
(* handler and paints every slot from that content.                        *)
(***************************************************************************)
\* remaining-time estimates in minutes, below 100 hours
EstimateSamples == {0, 59, 125, 754, 5999, 6000, 65535}

\* the StateBus when the surface is configured: one group of fields is
\* varied over its whole range, the others keep a fixed content
BusContents ==
    \E group \in {"workspaces", "clock", "battery"} :
        /\ ACTIVE_WORKSPACE \in
               (IF group = "workspaces" THEN 0..(NumWorkspaces + 1) ELSE {1})
        /\ WORKSPACES \in
               (IF group = "workspaces" THEN [WsIndex -> BOOLEAN]
                ELSE {[i \in WsIndex |-> i = 1]})
        /\ TIME_HOURS \in (IF group = "clock" THEN 0..23 ELSE {9})
        /\ TIME_MINUTES \in (IF group = "clock" THEN 0..59 ELSE {41})
        /\ DATE_DAY = 3
        /\ DATE_MONTH = 11
        /\ DATE_YEAR = 26
        /\ BATTERY_PERCENT \in (IF group = "battery" THEN 0..100 ELSE {100})
        /\ BATTERY_STATE \in (IF group = "battery" THEN 0..3 ELSE {3})
        /\ BATTERY_ESTIMATE_M \in
               (IF group = "battery" THEN EstimateSamples ELSE {0})

InitContent ==
    /\ BusContents
    /\ wake_fd = 1
    /\ InitAppState
    /\ InitThreads
    /\ rpc = "poll"
    /\ started = TRUE
    /\ ppc = "tick"
    /\ hpc = "read"
    /\ generation = "app_state"
    /\ glyphs = Some(FontCache)
    /\ wl_queue = <<[width |-> 0, height |-> 0]>>
    /\ configures_left = 0
    /\ ticks_left = 0
    /\ events_left = 0

\* the render thread alone
NextContent == Poll \/ DrainWake \/ Configure \/ Redraw \/ DispatchDone

SpecContent == InitContent /\ [][NextContent]_vars

\* what a sequence of calls shows: the glyphs, and the glyphs with colours
Shown(calls) == [k \in 1..Len(calls) |-> calls[k].glyph]
ShownColoured(calls) ==
    [k \in 1..Len(calls) |-> <<calls[k].glyph, calls[k].color>>]

\* the digit glyphs a sequence of calls begins with
RECURSIVE LeadingDigits(_)
LeadingDigits(glyphseq) ==
    IF glyphseq = <<>> \/ Head(glyphseq).name # "numbers" THEN <<>>
    ELSE <<Head(glyphseq).index>> \o LeadingDigits(Tail(glyphseq))

\* the numbers of S in ascending order, each as its glyphs in the colour
\* of the active or of another workspace
RECURSIVE NumbersAscending(_, _)
NumbersAscending(S, a) ==
    IF S = {} THEN <<>>
    ELSE LET n == CHOOSE x \in S : \A y \in S : x <= y
             c == IF n = a THEN "color_ws_focused" ELSE "color_ws_other"
         IN  (IF n = 10
              THEN << <<Digit(1), c>>, <<Digit(0), c>> >>
              ELSE << <<Digit(n), c>> >>)
             \o NumbersAscending(S \ {n}, a)

\* C12: a repainted workspace slot shows exactly the occupied workspaces
\* and the active one, as far as they lie in 1..10, in ascending order, the
\* active one in the focused colour and the others in the unfocused colour;
\* 1..9 as their digit, 10 as "1" followed by "0".
C12_WorkspaceSlotContent ==
    (out.drew /\ "workspaces" \in out.painted)
    => LET a == out.loaded.active_ws
           O == {i \in WsIndex : out.loaded.current_ws[i]}
       IN  ShownColoured(out.calls.workspaces)
               = NumbersAscending((O \cup {a}) \cap (1..10), a)

C12_Witness ==
    /\ out.drew
    /\ "workspaces" \in out.painted
    /\ out.loaded.active_ws = 4
    /\ {i \in WsIndex : out.loaded.current_ws[i]} = {2, 10}
    /\ Len(out.calls.workspaces) = 4

\* C13: for a percentage p in 0..100 and a state other than full, the
\* battery slot shows "100" iff p = 100, the two digits p div 10, p mod 10
\* iff 10 <= p < 100, and the one digit p iff p < 10; and
\* battery_content_width adds the widths of the same digits.
C13_PercentDigits ==
    (/\ out.drew
     /\ "battery" \in out.painted
     /\ out.loaded.bat_state # 3
     /\ out.loaded.bat_percent \in 0..100)
    => LET p == out.loaded.bat_percent
           drawn == LeadingDigits(Shown(out.calls.battery))
           added == LeadingDigits(Shown(battery_content_terms(
                        p, out.loaded.bat_state, out.loaded.bat_est_m_total)))
       IN  /\ drawn = <<1, 0, 0>> <=> p = 100
           /\ drawn = <<p \div 10, p % 10>> <=> (10 <= p /\ p < 100)
           /\ drawn = <<p>> <=> p < 10
           /\ added = drawn

C13_Witness ==
    /\ out.drew
    /\ "battery" \in out.painted
    /\ out.loaded.bat_state = 1
    /\ out.loaded.bat_percent = 100
    /\ Len(out.calls.battery) = 14

\* C14: for an hour h in 0..23 the time slot shows the hour 12 if h = 0,
\* h - 12 if h > 12 and h otherwise, which lies in 1..12, as two digits with
\* a leading zero, and the PM glyph iff h >= 12; time_content_width adds
\* the widths of the same glyphs.
C14_TwelveHourClock ==
    (out.drew /\ "time" \in out.painted /\ out.loaded.h \in 0..23)
    => LET h == out.loaded.h
           shown == Shown(out.calls.time)
           hour == IF h = 0 THEN 12 ELSE IF h > 12 THEN h - 12 ELSE h
       IN  /\ hour \in 1..12
           /\ Len(shown) = 7
           /\ shown[1] = Digit(hour \div 10)
           /\ shown[2] = Digit(hour % 10)
           /\ shown[7] = Named("pm") <=> h >= 12
           /\ shown[7] = Named("am") <=> h < 12
           /\ Shown(time_content_terms(h, out.loaded.m)) = shown

C14_Witness ==
    /\ out.drew
    /\ "time" \in out.painted
    /\ out.loaded.h = 0
    /\ out.loaded.m = 5
    /\ Shown(out.calls.time)[2] = Digit(2)

\* two digits with a leading zero
TwoDigits(n) == <<Digit(n \div 10), Digit(n % 10)>>

\* C15: a repainted battery slot shows only the "Full" glyph in state 3;
\* in any other state it shows the percent digits, '%', a gap, '+' when
\* charging (2) and '-' when discharging (1), a gap, and HH ':' MM with
\* HH = estimate div 60 and MM = estimate mod 60 as two digits each
\* (a percentage up to 100 and an estimate below 100 hours).
C15_BatterySlotFormat ==
    (/\ out.drew
     /\ "battery" \in out.painted
     /\ out.loaded.bat_percent \in 0..100
     /\ out.loaded.bat_est_m_total < 6000)
    => LET p == out.loaded.bat_percent
           st == out.loaded.bat_state
           est == out.loaded.bat_est_m_total
           shown == Shown(out.calls.battery)
           n == Len(LeadingDigits(shown))
           gap == <<Named("space"), Named("space")>>
           rest == SubSeq(shown, n + 1, Len(shown))
       IN  IF st = 3 THEN shown = <<Named("full")>>
           ELSE /\ n \in 1..3
                /\ Len(rest) = 11
                /\ rest[1] = Named("percent")
                /\ SubSeq(rest, 2, 3) = gap
                /\ st = 2 => rest[4] = Named("plus")
                /\ st = 1 => rest[4] = Named("minus")
                /\ SubSeq(rest, 5, 6) = gap
                /\ SubSeq(rest, 7, 8) = TwoDigits(est \div 60)
                /\ rest[9] = Named("colon")
                /\ SubSeq(rest, 10, 11) = TwoDigits(est % 60)

\* 7 percent, discharging, 125 minutes left: "7% - 02:05"
C15_Witness ==
    /\ out.drew
    /\ "battery" \in out.painted
    /\ out.loaded.bat_percent = 7
    /\ out.loaded.bat_state = 1
    /\ out.loaded.bat_est_m_total = 125
    /\ Shown(out.calls.battery) =
           << Digit(7), Named("percent"), Named("space"), Named("space"),
              Named("minus"), Named("space"), Named("space"),
              Digit(0), Digit(2), Named("colon"), Digit(0), Digit(5) >>


(***************************************************************************)
(* Glyph atlas, font_renderer.rs.  A file is its sequence of bytes; a font *)
(* path is the sequence of its bytes; a size is given in thousandths.      *)
(***************************************************************************)
Ok(v) == [ok |-> TRUE, val |-> v]
Err == [ok |-> FALSE, val |-> <<>>]

\* b"LBAT1"
ATLAS_MAGIC == <<76, 66, 65, 84, 49>>
GLYPH_COUNT == 19

\* value.to_le_bytes() of an n-byte integer; (x as u16) and (x as u32)
\* keep the low bytes
RECURSIVE to_le_bytes(_, _)
to_le_bytes(value, n) ==
    IF n = 0 THEN <<>>
    ELSE <<value % 256>> \o to_le_bytes(value \div 256, n - 1)

RECURSIVE from_le_bytes(_)
from_le_bytes(bytes) ==
    IF bytes = <<>> THEN 0
    ELSE Head(bytes) + 256 * from_le_bytes(Tail(bytes))

\* f32::to_bits of the sizes in use: 12.0, 16.0, 16.12, 16.125
to_bits(size) ==
    CASE size = 12000 -> 1094713344
      [] size = 16000 -> 1098907648
      [] size = 16120 -> 1098970563
      [] size = 16125 -> 1098973184

\* the size the helper parses from format!("{size:.2}")
helper_size(size) ==
    LET q == size \div 10
        r == size % 10
    IN  IF r > 5 \/ (r = 5 /\ q % 2 = 1) THEN (q + 1) * 10 ELSE q * 10

RasterizedGlyph(w, h, coverage) ==
    [width |-> w, height |-> h, coverage |-> coverage]

as_slice_ordered(cache) ==
    [k \in 1..10 |-> cache.numbers[k]]
        \o << cache.am, cache.pm, cache.slash, cache.colon, cache.space,
              cache.percent, cache.plus, cache.minus, cache.full >>

from_vec(all) ==
    IF Len(all) # GLYPH_COUNT THEN Err
    ELSE Ok([numbers |-> SubSeq(all, 1, 10),
             am |-> all[11], pm |-> all[12], slash |-> all[13],
             colon |-> all[14], space |-> all[15], percent |-> all[16],
             plus |-> all[17], minus |-> all[18], full |-> all[19]])

\* the record of one glyph (font_renderer.rs 149-152)
write_glyph(glyph) ==
    to_le_bytes(glyph.width, 2) \o to_le_bytes(glyph.height, 2)
        \o to_le_bytes(Len(glyph.coverage), 4) \o glyph.coverage

RECURSIVE write_glyphs(_)
write_glyphs(slice) ==
    IF slice = <<>> THEN <<>>
    ELSE write_glyph(Head(slice)) \o write_glyphs(Tail(slice))

\* the file write_atlas leaves; mtime is font_mtime(font_path), None when
\* the font file cannot be examined
write_atlas(cache, font_path, size, mtime) ==
    IF ~IsSome(mtime) THEN Err
    ELSE Ok(ATLAS_MAGIC
            \o to_le_bytes(Len(font_path), 4) \o font_path
            \o to_le_bytes(Unwrap(mtime)[1], 8)
            \o to_le_bytes(Unwrap(mtime)[2], 4)
            \o to_le_bytes(to_bits(size), 4)
            \o write_glyphs(as_slice_ordered(cache)))

\* String::from_utf8, for the byte values in use
from_utf8_ok(bytes) == \A k \in 1..Len(bytes) : bytes[k] < 128

\* the loop of font_renderer.rs 194-205: n glyph records from the front of
\* bytes; what follows them is not read
RECURSIVE read_glyphs(_, _)
read_glyphs(bytes, n) ==
    IF n = 0 THEN Ok(<<>>)
    ELSE IF Len(bytes) < 8 THEN Err
    ELSE LET w == from_le_bytes(SubSeq(bytes, 1, 2))
             h == from_le_bytes(SubSeq(bytes, 3, 4))
             cov_len == from_le_bytes(SubSeq(bytes, 5, 8))
         IN  IF Len(bytes) < 8 + cov_len THEN Err
             ELSE LET more == read_glyphs(
                                  SubSeq(bytes, 9 + cov_len, Len(bytes)), n - 1)
                  IN  IF ~more.ok THEN Err
                      ELSE Ok(<<RasterizedGlyph(
                                    w, h, SubSeq(bytes, 9, 8 + cov_len))>>
                              \o more.val)

\* current_mtime != (atlas_mtime_sec, atlas_mtime_nsec) (font_renderer.rs 185)
mtime_differs(current_mtime, atlas_mtime_sec, atlas_mtime_nsec) ==
    current_mtime # <<atlas_mtime_sec, atlas_mtime_nsec>>

\* file is None when the atlas cannot be opened, current_mtime is None when
\* the font file cannot be examined
load_from_atlas(expected_font_path, expected_size, file, current_mtime) ==
    IF ~IsSome(file) THEN Err
    ELSE LET b == Unwrap(file)
             path_len == from_le_bytes(SubSeq(b, 6, 9))
             path_bytes == SubSeq(b, 10, 9 + path_len)
             at == 9 + path_len
             atlas_mtime_sec == from_le_bytes(SubSeq(b, at + 1, at + 8))
             atlas_mtime_nsec == from_le_bytes(SubSeq(b, at + 9, at + 12))
             atlas_size_bits == from_le_bytes(SubSeq(b, at + 13, at + 16))
         IN  IF Len(b) < 5 THEN Err
             ELSE IF SubSeq(b, 1, 5) # ATLAS_MAGIC THEN Err
             ELSE IF Len(b) < 9 THEN Err
             ELSE IF Len(b) < at THEN Err
             ELSE IF ~from_utf8_ok(path_bytes) THEN Err
             ELSE IF Len(b) < at + 16 THEN Err
             ELSE IF path_bytes # expected_font_path THEN Err
             ELSE IF ~IsSome(current_mtime) THEN Err
             ELSE IF mtime_differs(Unwrap(current_mtime), atlas_mtime_sec,
                                   atlas_mtime_nsec) THEN Err
             ELSE IF atlas_size_bits # to_bits(expected_size) THEN Err
             ELSE LET glyphs_vec ==
                          read_glyphs(SubSeq(b, at + 17, Len(b)), GLYPH_COUNT)
                  IN  IF ~glyphs_vec.ok THEN Err
                      ELSE from_vec(glyphs_vec.val)


\* coverage bytes of a w x h glyph, some pattern of ink
Coverage(w, h, seed) == [k \in 1..(w * h) |-> (seed * 31 + k * 77) % 256]

\* glyph caches as from_font builds them (font_renderer.rs 53-85): every
\* coverage is width * height long, the space has no ink; small sizes
SampleCache(seed) ==
    [numbers |-> [d \in 1..10 |->
                      IF d = 2 THEN RasterizedGlyph(1, 3, Coverage(1, 3, seed + d))
                      ELSE RasterizedGlyph(2, 3, Coverage(2, 3, seed + d))],
     am |-> RasterizedGlyph(4, 3, Coverage(4, 3, seed + 11)),
     pm |-> RasterizedGlyph(4, 3, Coverage(4, 3, seed + 12)),
     slash |-> RasterizedGlyph(2, 4, Coverage(2, 4, seed + 13)),
     colon |-> RasterizedGlyph(1, 2, Coverage(1, 2, seed + 14)),
     space |-> RasterizedGlyph(0, 0, <<>>),
     percent |-> RasterizedGlyph(3, 3, Coverage(3, 3, seed + 16)),
     plus |-> RasterizedGlyph(2, 2, Coverage(2, 2, seed + 17)),
     minus |-> RasterizedGlyph(2, 1, Coverage(2, 1, seed + 18)),
     full |-> RasterizedGlyph(5, 3, Coverage(5, 3, seed + 19))]

SampleCaches == {SampleCache(1), SampleCache(2)}

\* font paths "/a" and "/b"
FontPathA == <<47, 97>>
FontPathB == <<47, 98>>

\* modification times as (seconds, nanoseconds): the font's, an earlier
\* second, the same second with other nanoseconds, and a later one
MtimeNow == <<1700000000, 500>>
MtimeOlder == <<1600000000, 500>>
MtimeOtherNanos == <<1700000000, 499>>
MtimeTouched == <<1700000100, 500>>

\* files that may lie at the atlas path when load_or_build is called:
\* none, atlases written for this or another path, size and modification
\* time, and damaged copies of a valid atlas
WrittenBefore(font_path, size) ==
    { write_atlas(SampleCache(1), p, s, Some(m)).val :
          p \in {font_path, FontPathB}, s \in {size, 12000},
          m \in {MtimeNow, MtimeOlder, MtimeOtherNanos} }

\* the last record of an atlas of SampleCache is 8 + 15 bytes long and
\* begins with the width
Damaged(file) ==
    { [file EXCEPT ![1] = 77],
      SubSeq(file, 1, Len(file) - 1),
      SubSeq(file, 1, 12),
      file \o <<0>>,
      [file EXCEPT ![Len(file) - 22] = 6] }

PriorAtlases(font_path, size) ==
    {None}
    \cup {Some(f) : f \in WrittenBefore(font_path, size)}
    \cup {Some(f) : f \in Damaged(write_atlas(SampleCache(1), font_path, size,
                                              Some(MtimeNow)).val)}

(***************************************************************************)
(* GlyphCache::load_or_build (font_renderer.rs 35-51) as main calls it     *)
(* before it connects to the display (main.rs 600-605).                    *)
(***************************************************************************)
LoaderFrame ==
    UNCHANGED <<busVars, wake_fd, bufVars, lastVars, configured,
                force_full_redraw, generation, glyph_call, started, revents,
                caller, out, envVars, pollVars, hyprVars, verVars,
                passes_since_change>>

\* main is about to call load_or_build; env_ok: XDG_CACHE_HOME or HOME is
\* set; font_mtime: None when the font file is missing; helper: whether the
\* helper process can be spawned; writable: whether it can write the atlas;
\* touches_left: how often the font file is still modified
InitLoader ==
    \E size \in {16000, 16125},
       font_mtime \in {None, Some(MtimeNow)},
       env_ok \in BOOLEAN, helper \in {"spawn_error", "runs"},
       writable \in BOOLEAN, touches_left \in 0..1 :
        \E atlas \in PriorAtlases(FontPathA, size) :
            lob = [pc |-> "cache_path", font_path |-> FontPathA,
                   size |-> size, font_mtime |-> font_mtime,
                   atlas |-> atlas, env_ok |-> env_ok, helper |-> helper,
                   writable |-> writable, touches_left |-> touches_left,
                   loads |-> 0, builds |-> 0, first |-> None,
                   prior |-> atlas, built |-> None, touched |-> FALSE,
                   result |-> None]

\* atlas_cache_path(font_path, size)? (font_renderer.rs 36, 274-281)
CachePath ==
    /\ lob.pc = "cache_path"
    /\ lob' = IF lob.env_ok THEN [lob EXCEPT !.pc = "first_load"]
              ELSE [lob EXCEPT !.pc = "returned", !.result = Some(Err)]
    /\ UNCHANGED <<glyphs, rpc>>
    /\ LoaderFrame

\* where load_or_build goes after the first load (font_renderer.rs 38-47)
after_first_load(cache) == IF cache.ok THEN "returned" ELSE "build"

FirstLoad ==
    /\ lob.pc = "first_load"
    /\ LET cache == load_from_atlas(lob.font_path, lob.size, lob.atlas,
                                    lob.font_mtime)
       IN  lob' = [lob EXCEPT
                       !.loads = @ + 1,
                       !.first = Some([cache |-> cache,
                                       font_mtime |-> lob.font_mtime]),
                       !.pc = after_first_load(cache),
                       !.result = IF after_first_load(cache) = "returned"
                                  THEN Some(cache) ELSE None]
    /\ UNCHANGED <<glyphs, rpc>>
    /\ LoaderFrame

\* build_atlas_with_helper(...)? (font_renderer.rs 47, 250-272): the helper
\* runs maybe_run_builder_mode (235-248) with the size as formatted; the
\* font yields one of the sample caches
Build ==
    /\ lob.pc = "build"
    /\ \E rasterized \in SampleCaches :
           LET written == write_atlas(rasterized, lob.font_path,
                                      helper_size(lob.size), lob.font_mtime)
               success == /\ lob.helper = "runs"
                          /\ lob.writable
                          /\ written.ok
           IN  lob' = [lob EXCEPT
                           !.builds = @ + 1,
                           !.atlas = IF success THEN Some(written.val) ELSE @,
                           !.built = IF success THEN Some(rasterized) ELSE @,
                           !.pc = IF success THEN "second_load" ELSE "returned",
                           !.result = IF success THEN None ELSE Some(Err)]
    /\ UNCHANGED <<glyphs, rpc>>
    /\ LoaderFrame

\* the font file is modified while load_or_build runs
TouchFont ==
    /\ lob.pc \in {"build", "second_load"}
    /\ lob.touches_left > 0
    /\ IsSome(lob.font_mtime)
    /\ lob' = [lob EXCEPT !.font_mtime = Some(MtimeTouched),
                          !.touches_left = @ - 1,
                          !.touched = (lob.pc = "second_load") \/ @]
    /\ UNCHANGED <<glyphs, rpc>>
    /\ LoaderFrame

\* Self::load_from_atlas(...)? (font_renderer.rs 48-50)
SecondLoad ==
    /\ lob.pc = "second_load"
    /\ LET cache == load_from_atlas(lob.font_path, lob.size, lob.atlas,
                                    lob.font_mtime)
       IN  lob' = [lob EXCEPT !.loads = @ + 1, !.pc = "returned",
                              !.result = Some(cache)]
    /\ UNCHANGED <<glyphs, rpc>>
    /\ LoaderFrame

\* load_or_build(...).ok() (main.rs 601): the cache, of which the bar
\* reads the metrics, or None
taken(result) == IF result.ok THEN Some(FontCache) ELSE None

\* .ok() and the rest of main up to the roundtrip (main.rs 601-671); the
\* bar lays out with the metrics of the cache
StartBar ==
    /\ lob.pc = "returned"
    /\ rpc = "load"
    /\ glyphs' = taken(Unwrap(lob.result))
    /\ rpc' = "dispatch"
    /\ lob' = [lob EXCEPT !.pc = "started"]
    /\ LoaderFrame

LoaderStep ==
    \/ CachePath \/ FirstLoad \/ Build \/ TouchFont \/ SecondLoad \/ StartBar

\* main at its first line: nothing of the bar exists yet
InitBeforeLoad ==
    /\ InitBus
    /\ InitAppState
    /\ revents = [wake |-> FALSE, wl |-> FALSE]
    /\ caller = "none"
    /\ out = NoOut
    /\ tick_counter = 0
    /\ now = NoClock
    /\ sysfs = NoSysfs
    /\ changed = FALSE
    /\ event = NoEvent
    /\ listed = <<>>
    /\ ev_pre = [active |-> 1, workspaces |-> [i \in WsIndex |-> FALSE]]
    /\ ev_pinged = FALSE
    /\ passes_since_change = 0
    /\ ver = ZeroVer
    /\ goal = ZeroVer
    /\ published = ZeroVer
    /\ drained = ZeroVer
    /\ seen = NothingSeen
    /\ rpc = "load"
    /\ started = FALSE
    /\ ppc = "unstarted"
    /\ hpc = "unstarted"
    /\ generation = "app_state"
    /\ glyphs = None
    /\ glyph_call = NoGlyphCall
    /\ wl_queue = <<>>
    /\ events_left = 0

\* main from its first line to the roundtrip
InitAtlas ==
    /\ InitLoader
    /\ InitBeforeLoad
    /\ configures_left = 0
    /\ ticks_left = 0

SpecAtlas == InitAtlas /\ [][LoaderStep]_vars


\* load_or_build has returned to main
Returned == lob.pc \in {"returned", "started"}

\* C16: atlas round trip.  An atlas written by write_atlas for a font path
\* and size and loaded by load_from_atlas for the same path and size, the
\* font's modification time unchanged in between, loads successfully and
\* yields the 19 glyphs that were written, with the same width, height and
\* coverage, in the order digits 0-9, AM, PM, '/', ':', ' ', '%', '+', '-',
\* Full: both for the atlas the helper wrote before the second load and for
\* an atlas found at the first load.
C16_AtlasRoundTrip ==
    /\ (/\ Returned
        /\ lob.loads = 2
        /\ ~lob.touched
        /\ helper_size(lob.size) = lob.size)
       => LET written == Unwrap(lob.built)
              loaded == Unwrap(lob.result)
          IN  /\ loaded.ok
              /\ Len(as_slice_ordered(loaded.val)) = 19
              /\ loaded.val = written
    /\ \A c \in SampleCaches :
           (/\ Returned
            /\ lob.loads = 1
            /\ lob.builds = 0
            /\ IsSome(lob.font_mtime)
            /\ lob.prior = Some(write_atlas(c, lob.font_path, lob.size,
                                            lob.font_mtime).val))
           => /\ Unwrap(lob.result).ok
              /\ Unwrap(lob.result).val = c

C16_Witness ==
    /\ lob.pc = "returned"
    /\ lob.loads = 2
    /\ ~lob.touched
    /\ lob.size = 16000
    /\ lob.built = Some(SampleCache(2))
    /\ Unwrap(lob.result).ok
    /\ Unwrap(lob.result).val.pm = SampleCache(2).pm

\* the header of an atlas file by its layout: magic[5], font_path_len:u32,
\* font_path, mtime_sec:u64, mtime_nsec:u32, size_bits:u32, little-endian
Header(file) ==
    LET n == IF Len(file) >= 9 THEN from_le_bytes(SubSeq(file, 6, 9)) ELSE 0
    IN  IF Len(file) >= 9 /\ Len(file) >= 25 + n
        THEN [complete |-> TRUE,
              magic |-> SubSeq(file, 1, 5),
              font_path |-> SubSeq(file, 10, 9 + n),
              mtime |-> << from_le_bytes(SubSeq(file, 10 + n, 17 + n)),
                           from_le_bytes(SubSeq(file, 18 + n, 21 + n)) >>,
              size_bits |-> from_le_bytes(SubSeq(file, 22 + n, 25 + n))]
        ELSE [complete |-> FALSE, magic |-> <<>>, font_path |-> <<>>,
              mtime |-> <<0, 0>>, size_bits |-> 0]

\* C17: atlas invalidation.  The first load_from_atlas fails, and
\* load_or_build goes on to the rebuild, whenever the atlas file's magic
\* differs from "LBAT1", its embedded font path differs from the requested
\* one, its embedded modification time differs in seconds or nanoseconds
\* from the font file's, or its embedded size bits differ from the bits of
\* the requested size.
C17_AtlasInvalidation ==
    (/\ IsSome(lob.first)
     /\ IsSome(lob.prior)
     /\ LET hd == Header(Unwrap(lob.prior))
            font_mtime == Unwrap(lob.first).font_mtime
        IN  /\ hd.complete
            /\ \/ hd.magic # <<76, 66, 65, 84, 49>>
               \/ hd.font_path # lob.font_path
               \/ IsSome(font_mtime) /\ Unwrap(font_mtime)[1] # hd.mtime[1]
               \/ IsSome(font_mtime) /\ Unwrap(font_mtime)[2] # hd.mtime[2]
               \/ hd.size_bits # to_bits(lob.size))
    => /\ ~Unwrap(lob.first).cache.ok
       /\ lob.pc = "build" \/ lob.builds = 1

\* an atlas that differs from a valid one only in the embedded font path
C17_Witness ==
    /\ lob.pc = "build"
    /\ lob.font_mtime = Some(MtimeNow)
    /\ lob.prior = Some(write_atlas(SampleCache(1), FontPathB, lob.size,
                                    Some(MtimeNow)).val)
    /\ ~Unwrap(lob.first).cache.ok

\* C18: control flow of load_or_build.  When the first load validates, its
\* cache is returned and the builder is never invoked; when it fails, the
\* builder is invoked exactly once and, if it succeeds, the load is
\* attempted exactly once more; a failure of the builder or of the second
\* load is returned as the error, without another attempt.
C18_LoadOrBuildFlow ==
    /\ lob.builds <= 1
    /\ lob.loads <= 2
    /\ (Returned /\ IsSome(lob.first))
       => LET first == Unwrap(lob.first).cache
              result == Unwrap(lob.result)
          IN  IF first.ok
              THEN lob.builds = 0 /\ lob.loads = 1 /\ result = first
              ELSE /\ lob.builds = 1
                   /\ IF IsSome(lob.built)
                      THEN lob.loads = 2
                      ELSE lob.loads = 1 /\ ~result.ok
    /\ lob.pc = "second_load" => lob.builds = 1 /\ lob.loads = 1
    /\ lob.pc = "build" => lob.builds = 0 /\ lob.loads = 1

\* the builder succeeded, the second load failed, the error was returned
C18_Witness ==
    /\ lob.pc = "returned"
    /\ lob.builds = 1
    /\ lob.loads = 2
    /\ IsSome(lob.built)
    /\ ~Unwrap(lob.result).ok


(***************************************************************************)
(* The bar from main's first line: load_or_build, then the display server, *)
(* the render thread and the poller.  The atlas is missing; the cache      *)
(* directory, the font file or the helper may be missing too.              *)
(***************************************************************************)
InitDegraded ==
    /\ \E font_mtime \in {None, Some(MtimeNow)},
          env_ok \in BOOLEAN, helper \in {"spawn_error", "runs"} :
           lob = [pc |-> "cache_path", font_path |-> FontPathA,
                  size |-> 16000, font_mtime |-> font_mtime,
                  atlas |-> None, env_ok |-> env_ok, helper |-> helper,
                  writable |-> TRUE, touches_left |-> 0,
                  loads |-> 0, builds |-> 0, first |-> None,
                  prior |-> None, built |-> None, touched |-> FALSE,
                  result |-> None]
    /\ InitBeforeLoad
    /\ configures_left = MaxConfigures
    /\ ticks_left = MaxInputs

NextDegraded ==
    \/ CachePath \/ FirstLoad \/ Build \/ SecondLoad \/ StartBar
    \/ NextSurface

SpecDegraded == InitDegraded /\ [][NextDegraded]_vars

\* C19: degraded mode.  When load_or_build fails the bar starts without a
\* glyph cache and the render thread goes on; without a glyph cache every
\* repaint pass, whatever the StateBus holds and whatever was configured,
\* clears and draws nothing, returns an empty damage list and leaves the
\* render thread in its loop.
C19_DegradedMode ==
    /\ (lob.pc = "started" /\ ~Unwrap(lob.result).ok) => glyphs = None
    /\ (lob.pc = "started" /\ glyphs = None /\ out.drew)
       => /\ out.painted = {}
          /\ out.calls = NoCalls
          /\ out.damage = <<>>
          /\ rpc = "dispatch"
    /\ (lob.pc = "started" /\ glyphs = None /\ started)
       => rpc \in {"dispatch", "poll", "polled", "redraw"}

\* a repaint pass on a wake, after the poller stored a new time, in a bar
\* that started without glyphs because the helper could not be spawned
C19_Witness ==
    /\ lob.pc = "started"
    /\ lob.builds = 1
    /\ ~Unwrap(lob.result).ok
    /\ glyphs = None
    /\ out.drew
    /\ out.trigger = "wake"
    /\ out.loaded.m # 0


\* C20: fixed backoff before reconnect.  Every connect attempt of the
\* listener other than its first follows the 2-second sleep: the listener
\* gets to UnixStream::connect again only from the backoff, after a failed
\* connect as well as after a read error or the end of the stream.
C20_BackoffBeforeReconnect ==
    [][(hpc' = "connect" /\ hpc \notin {"connect", "env"})
          => hpc = "backoff"]_vars


\* C21: reconnect forever.  The listener thread never terminates: a failed
\* connect, a stream error and a missing session identifier all leave it on
\* its way to another connect attempt; and whatever fails in the listener
\* or the poller, the render thread stays in its event loop.
C21_ReconnectForever ==
    /\ hpc # "dead"
    /\ started => rpc \in {"dispatch", "poll", "polled", "redraw"}


\* the listener has sent its first ping
PingedOnce ==
    hpc \in {"env", "dead", "connect", "backoff", "read",
             "ev_store_active", "ev_mark_active", "ev_create", "ev_destroy",
             "ev_ping"}

\* C22: seeding before signalling.  When the listener sends its first ping,
\* and so before it looks up the event socket and connects, every store the
\* two window-manager queries call for has been made; a query that failed
\* has stored nothing, and the ping is sent all the same.
C22_SeedingBeforeSignalling ==
    /\ [](hpc = "init_ping"
            => /\ \A f \in ListenerFields : ver[f] = goal[f]
               /\ ver[Scalar("ACTIVE_WORKSPACE")] = 0
                      => ACTIVE_WORKSPACE = 1
               /\ ver[Scalar("ACTIVE_WORKSPACE")] = 1
                      => ACTIVE_WORKSPACE = 2 /\ WORKSPACES[2]
               /\ \A i \in WsIndex : ver[WsField(i)] = 0 <=> ~WORKSPACES[i])
    /\ [][(~PingedOnce /\ PingedOnce')
            => hpc = "init_ping" /\ wake_fd' = wake_fd + 1]_vars
    /\ [][hpc = "init_ping" => (hpc' = "env" /\ wake_fd' = wake_fd + 1)]_vars

\* both queries answered, their results stored, the ping sent, no connect yet
C22_Witness ==
    /\ hpc = "env"
    /\ ACTIVE_WORKSPACE = 2
    /\ WORKSPACES[1]
    /\ WORKSPACES[2]
    /\ wake_fd = 1


(***************************************************************************)
(* The poller alone, over MaxTicks ticks: the loop was entered, the render *)
(* thread waits in poll, the listener is not scheduled.                    *)
(***************************************************************************)
InitPoller ==
    /\ InitBus
    /\ InitAppState
    /\ InitThreads
    /\ rpc = "poll"
    /\ started = TRUE
    /\ ppc = "tick"
    /\ hpc = "init_active"
    /\ glyphs \in GlyphChoices
    /\ generation = "app_state"
    /\ wl_queue = <<>>
    /\ configures_left = 0
    /\ ticks_left = MaxTicks
    /\ events_left = 0

SpecPoller == InitPoller /\ [][PollerStep]_vars


\* index of the tick the poller is in (of the last tick begun), from 0
TickNo == MaxTicks - ticks_left - 1

\* the tick is a 30th one and the battery is not disabled
SampleDue == TickNo % BatteryPeriod = 0 /\ BATTERY_STATE # BatDisabled

BatteryPcs == {"battery", "store_bat_percent", "store_bat_state", "store_bat_estimate"}

\* the tick goes past the battery block without sampling: the clock read
\* failed, or the block's condition was false
SkipsBattery ==
    \/ ppc = "tick" /\ ppc' = "tick" /\ ticks_left' # ticks_left
    \/ ppc \notin BatteryPcs \cup {"ping"} /\ ppc' = "ping"

\* C23: the battery is sampled on exactly every 30th tick, the first
\* included, while BATTERY_STATE is not 255, whether or not the clock read of
\* that tick succeeded; once BATTERY_STATE is 255 the battery is never sampled
\* and no battery field is written.
C23_BatteryEveryThirtiethTick ==
    /\ [](ppc = "battery" => TickNo % BatteryPeriod = 0)
    /\ [](BATTERY_STATE = BatDisabled => ppc \notin BatteryPcs)
    /\ [][SkipsBattery => ~SampleDue']_vars


\* C24: a tick of the poller pings exactly once if during the tick at least
\* one field of the bus was stored with a new value, and not at all if the
\* tick changed nothing: at the ping test the flag says whether a field has
\* a store that was not announced yet, the wake counter moves only there, by
\* one, and only when the flag is set, and between ticks every store has
\* been announced.
C24_PingIffChanged ==
    /\ [](ppc = "ping"
            => (changed <=> \E f \in PollerFields : ver[f] > published[f]))
    /\ [](ppc = "tick" => \A f \in PollerFields : ver[f] = published[f])
    /\ [][wake_fd' # wake_fd
            => ppc = "ping" /\ changed /\ wake_fd' = wake_fd + 1]_vars
    /\ [][(ppc = "ping" /\ ppc' = "tick" /\ changed)
            => wake_fd' = wake_fd + 1]_vars

\* the second tick reaches the ping test having changed nothing, after a
\* first tick that pinged once
C24_Witness == ppc = "ping" /\ ~changed /\ TickNo = 1 /\ wake_fd = 1


\* the poller is between its minute store and its hour store, and the hour
\* it is about to store differs from the one on the bus
TornOnBus == ppc = "store_hours" /\ now.hour # TIME_HOURS

\* a repaint pass runs (draw_bar, from a configure event or from a wake)
PassStep == rpc = "redraw" /\ rpc' = "dispatch"

\* C25: bounded tearing.  The pair (new minute, old hour) is rendered by at
\* most one repaint pass: no pass paints the time slot with the torn pair
\* when the last-rendered hour and minute are that pair already.  And a pass
\* that runs after the ping of the tick leaves the time slot showing the
\* hour and minute of the bus.
C25_BoundedTearing ==
    /\ [][(TornOnBus /\ PassStep /\ "time" \in out'.painted)
            => ~(last_h = TIME_HOURS /\ last_m = TIME_MINUTES)]_vars
    /\ [][(PassStep /\ ppc = "tick" /\ IsSome(glyphs) /\ out'.drew
             /\ time_slot_x < width)
            => last_h' = TIME_HOURS /\ last_m' = TIME_MINUTES]_vars


(***************************************************************************)
(* The clear step over narrow surfaces: the first configure event carries  *)
(* the size, the render thread runs alone and finds one wake pending.      *)
(***************************************************************************)
InitClear ==
    /\ ACTIVE_WORKSPACE = 1
    /\ WORKSPACES = [i \in WsIndex |-> i = 1]
    /\ TIME_HOURS = 9
    /\ TIME_MINUTES = 41
    /\ DATE_DAY = 3
    /\ DATE_MONTH = 11
    /\ DATE_YEAR = 26
    /\ BATTERY_PERCENT = 100
    /\ BATTERY_STATE \in {3, BatDisabled}
    /\ BATTERY_ESTIMATE_M = 0
    /\ wake_fd = 1
    /\ InitAppState
    /\ InitThreads
    /\ rpc = "poll"
    /\ started = TRUE
    /\ ppc = "tick"
    /\ hpc = "read"
    /\ generation = "app_state"
    /\ glyphs = Some(FontCache)
    /\ \E w \in 1..MaxClearWidth, h \in 21..MaxClearHeight :
          wl_queue = <<[width |-> w, height |-> h]>>
    /\ configures_left = 0
    /\ ticks_left = 0
    /\ events_left = 0

SpecClear == InitClear /\ [][NextContent]_vars

\* the pixels of a set of byte ranges
PixelsOf(ranges) == UNION { (r[1] \div 4)..((r[2] \div 4) - 1) : r \in ranges }

\* the pixels of the columns slot_x .. slot_x + slot_width - 1 that lie in
\* the buffer, on every row
RectPixels(slot_x, slot_width) ==
    { (y * width) + c : y \in 0..(height - 1),
                        c \in slot_x..(Min(slot_x + slot_width, width) - 1) }

SlotRectPixels(slot) ==
    CASE slot = "workspaces" -> RectPixels(0, WsAreaMax)
      [] slot = "date" ->
             RectPixels(date_slot_x(Unwrap(glyphs)), date_slot_width(Unwrap(glyphs)))
      [] slot = "time" -> RectPixels(time_slot_x, time_slot_width(Unwrap(glyphs)))
      [] slot = "battery" -> RectPixels(bat_slot_x, BatMaxWidth)

\* C26: the clear step of a repainted slot zeroes exactly the pixels of the
\* slot's rectangle that lie in the buffer, on every row, and no other pixel,
\* whatever the width of the surface.
C26_ClearClippedToSlot ==
    out.drew =>
        \A slot \in out.painted :
            PixelsOf(out.cleared[slot]) = SlotRectPixels(slot)


\* C27: every damage rectangle a pass returns has y = 0, the height of the
\* buffer, a positive width, and lies between the left and the right edge of
\* the buffer; a pass returns at most one rectangle per repainted slot, four
\* at most.
C27_DamageWellFormed ==
    out.drew =>
        /\ \A k \in 1..Len(out.damage) :
              LET r == out.damage[k]
              IN  /\ r[2] = 0
                  /\ r[4] = height
                  /\ r[3] > 0
                  /\ r[1] >= 0
                  /\ r[1] + r[3] <= width
        /\ Len(out.damage) <= Cardinality(out.painted)
        /\ Len(out.damage) <= 4

\* a pass over a surface 100 wide returns four rectangles, the one of the
\* time slot cut at the right edge
C27_Witness ==
    /\ out.drew
    /\ width = 100
    /\ Len(out.damage) = 4
    /\ out.damage[3] = Rect(62, 0, 38, height)


Slots == {"workspaces", "date", "time", "battery"}

\* the last-rendered values of a slot
SlotLast(slot) ==
    CASE slot = "workspaces" -> <<last_active_ws, last_workspaces>>
      [] slot = "date" -> <<last_day, last_month, last_year>>
      [] slot = "time" -> <<last_h, last_m>>
      [] slot = "battery" -> <<last_bat_percent, last_bat_state, last_bat_est_m>>

\* the StateBus values of a slot
SlotOnBus(slot) ==
    CASE slot = "workspaces" -> <<ACTIVE_WORKSPACE, WORKSPACES>>
      [] slot = "date" -> <<DATE_DAY, DATE_MONTH, DATE_YEAR>>
      [] slot = "time" -> <<TIME_HOURS, TIME_MINUTES>>
      [] slot = "battery" ->
             <<BATTERY_PERCENT, BATTERY_STATE, BATTERY_ESTIMATE_M>>

\* the left edge of a slot
SlotX(slot) ==
    CASE slot = "workspaces" -> 0
      [] slot = "date" -> date_slot_x(Unwrap(glyphs))
      [] slot = "time" -> time_slot_x
      [] slot = "battery" -> bat_slot_x

\* C28: the last-rendered values of a slot change only in a repaint pass
\* that cleared and repainted the slot and returned its damage rectangle, and
\* are then the StateBus values the pass loaded; a pass that leaves the slot
\* unchanged or skips it leaves its last-rendered values as they were.
C28_SnapshotFollowsRepaint ==
    /\ [][\A slot \in Slots :
             SlotLast(slot)' # SlotLast(slot)
                 => PassStep /\ slot \in out'.painted]_vars
    /\ [][PassStep =>
             \A slot \in Slots :
                 IF slot \in out'.painted
                 THEN /\ SlotLast(slot)' = SlotOnBus(slot)
                      /\ out'.cleared[slot] # {}
                      /\ \E k \in 1..Len(out'.damage) :
                            out'.damage[k][1] = SlotX(slot)
                      /\ Len(out'.damage) = Cardinality(out'.painted)
                 ELSE SlotLast(slot)' = SlotLast(slot)]_vars

\* a wake-triggered pass repainted the date slot alone: the date of the tick
\* is recorded, the hour and minute are those of the pass before
C28_Witness ==
    /\ out.drew
    /\ out.trigger = "wake"
    /\ out.painted = {"date"}
    /\ last_day = 3
    /\ last_h = 13
    /\ last_m = 7


(***************************************************************************)
(* draw_glyph's inner loop body, one pixel: the colour of the call, the    *)
(* coverage byte of the glyph and the destination pixel, as <<b, g, r, a>>.*)
(***************************************************************************)
\* the colours of draw_bar (app_state.rs 292-296) and two that are not opaque
GlyphColors ==
    { <<247, 166, 203, 255>>, <<255, 255, 255, 255>>, <<236, 199, 116, 255>>,
      <<161, 227, 166, 255>>, <<255, 128, 0, 128>>, <<255, 255, 255, 1>> }

DstPixels == { <<0, 0, 0, 0>>, <<17, 34, 51, 255>> }

InitPixel ==
    /\ InitBus
    /\ InitAppState
    /\ InitLocals
    /\ InitUnstarted
    /\ generation = "app_state"
    /\ glyphs = Some(FontCache)
    /\ wl_queue = <<>>
    /\ configures_left = 0
    /\ ticks_left = 0
    /\ events_left = 0
    /\ \E color \in GlyphColors, alpha \in 0..255, dst \in DstPixels :
          glyph_call = [pc |-> "pixel", color |-> color, alpha |-> alpha,
                        dst |-> dst, pixel |-> dst]

\* one iteration of the loop over gx
DrawGlyphPixel ==
    /\ glyph_call.pc = "pixel"
    /\ glyph_call' =
           [glyph_call EXCEPT
                !.pc = "done",
                !.pixel = draw_pixel(glyph_call.color, glyph_call.alpha,
                                     glyph_call.dst)]
    /\ UNCHANGED <<busVars, wake_fd, bufVars, lastVars, configured,
                   force_full_redraw, glyphs, generation, lob, rpc, started,
                   revents, caller, out, envVars, pollVars, hyprVars, verVars,
                   passes_since_change>>

SpecPixel == InitPixel /\ [][DrawGlyphPixel]_vars

\* C29: for a coverage c in 1..255 the pixel written has the alpha
\* (color.alpha * c) div 255 and every colour channel (color.channel * alpha)
\* div 255, each at most the alpha and within 0..255; for coverage 0 the
\* pixel is the one that was there.
C29_PremultipliedCompositing ==
    glyph_call.pc = "done" =>
        LET c == glyph_call.alpha
            color == glyph_call.color
            pixel == glyph_call.pixel
        IN  IF c = 0 THEN pixel = glyph_call.dst
            ELSE /\ pixel[4] = (color[4] * c) \div 255
                 /\ \A ch \in 1..3 :
                       /\ pixel[ch] = (color[ch] * pixel[4]) \div 255
                       /\ pixel[ch] <= pixel[4]
                 /\ \A ch \in 1..4 : pixel[ch] \in 0..255

\* half coverage of the date colour over an opaque pixel
C29_Witness ==
    /\ glyph_call.pc = "done"
    /\ glyph_call.color = <<236, 199, 116, 255>>
    /\ glyph_call.alpha = 128
    /\ glyph_call.dst = <<17, 34, 51, 255>>
    /\ glyph_call.pixel = <<118, 99, 58, 128>>


\* C30: whatever the battery fields of the bus hold (an estimate of 0..65535
\* minutes, a percentage the poller stores), every index into glyphs.numbers
\* that the battery renderer and battery_content_width compute lies in 0..9,
\* and no pass stops at an access outside the ten digit glyphs.
C30_DigitIndicesInRange ==
    /\ numbers_in_bounds(battery_content_terms(BATTERY_PERCENT, BATTERY_STATE,
                                               BATTERY_ESTIMATE_M))
    /\ \A k \in 1..Len(draw_battery(BATTERY_PERCENT, BATTERY_STATE,
                                    BATTERY_ESTIMATE_M)) :
          LET g == draw_battery(BATTERY_PERCENT, BATTERY_STATE,
                                BATTERY_ESTIMATE_M)[k].glyph
          IN  g.name = "numbers" => g.index \in 0..9
    /\ rpc # "panicked"


\* bytes is exactly n glyph records (width:u16, height:u16, cov_len:u32,
\* coverage[cov_len]) and nothing more
RECURSIVE ExactlyRecords(_, _)
ExactlyRecords(bytes, n) ==
    IF n = 0 THEN bytes = <<>>
    ELSE /\ Len(bytes) >= 8
         /\ LET cov_len == from_le_bytes(SubSeq(bytes, 5, 8))
            IN  /\ Len(bytes) >= 8 + cov_len
                /\ ExactlyRecords(SubSeq(bytes, 9 + cov_len, Len(bytes)), n - 1)

\* C31: exact glyph count.  load_from_atlas accepts an atlas file only if,
\* after the header, the file is exactly 19 glyph records: a file with fewer
\* records, with a truncated record, or with data after the 19th record is
\* rejected.
C31_ExactGlyphCount ==
    (/\ IsSome(lob.first)
     /\ IsSome(lob.prior)
     /\ Unwrap(lob.first).cache.ok)
    => LET file == Unwrap(lob.prior)
           path_len == from_le_bytes(SubSeq(file, 6, 9))
       IN  ExactlyRecords(SubSeq(file, 26 + path_len, Len(file)), 19)


(***************************************************************************)
(* rasterize_string (font_renderer.rs 356-389).  What font.rasterize       *)
(* returns for a character is a record of the metrics the rasterizer       *)
(* reports (width and height of the bitmap, xmin and ymin of its lower     *)
(* left corner relative to the pen on the baseline, advance) and the       *)
(* coverage, row by row from the top.                                      *)
(***************************************************************************)
Rasterized(w, h, xmin, ymin, advance, seed) ==
    [width |-> w, height |-> h, xmin |-> xmin, ymin |-> ymin,
     advance |-> advance, coverage |-> Coverage(w, h, seed)]

\* a tall letter, a short one, one with a descender, one whose ink starts
\* left of the pen, and a blank
SampleChars ==
    { Rasterized(2, 3, 0, 0, 3, 1), Rasterized(2, 2, 0, 0, 2, 2),
      Rasterized(2, 3, 0, 0 - 1, 2, 3), Rasterized(2, 1, 0 - 1, 1, 1, 4),
      Rasterized(0, 0, 0, 0, 1, 5) }

MaxChars == 3

RECURSIVE SumOf(_, _)
\* field f of the records of a sequence, added up
SumOf(seq, f) == IF seq = <<>> THEN 0 ELSE seq[1][f] + SumOf(Tail(seq), f)

rasterize_string(chars) ==
    LET total_width == SumOf(chars, "width")
        max_height == IF chars = <<>> THEN 0
                      ELSE CHOOSE h \in {chars[i].height : i \in DOMAIN chars} :
                               \A i \in DOMAIN chars : chars[i].height <= h
        current_x(i) == SumOf(SubSeq(chars, 1, i - 1), "width")
        covers(i, x, y) == /\ current_x(i) <= x
                           /\ x < current_x(i) + chars[i].width
                           /\ y < chars[i].height
    IN  RasterizedGlyph(
            total_width, max_height,
            [dst \in 1..(total_width * max_height) |->
                LET y == (dst - 1) \div total_width
                    x == (dst - 1) % total_width
                IN  IF \E i \in DOMAIN chars : covers(i, x, y)
                    THEN LET i == CHOOSE i \in DOMAIN chars : covers(i, x, y)
                         IN  chars[i].coverage[(y * chars[i].width)
                                                + (x - current_x(i)) + 1]
                    ELSE 0])

\* the helper process rasterizes a string of up to MaxChars characters
InitRaster ==
    /\ InitBeforeLoad
    /\ configures_left = 0
    /\ ticks_left = 0
    /\ \E n \in 1..MaxChars : \E chars \in [1..n -> SampleChars] :
          lob = [pc |-> "rasterize_string", chars |-> chars,
                 glyph |-> RasterizedGlyph(0, 0, <<>>)]

RasterizeString ==
    /\ lob.pc = "rasterize_string"
    /\ lob' = [lob EXCEPT !.pc = "rasterized",
                          !.glyph = rasterize_string(lob.chars)]
    /\ UNCHANGED <<glyphs, rpc>>
    /\ LoaderFrame

SpecRaster == InitRaster /\ [][RasterizeString]_vars

\* the string laid out on the baseline: each character's bitmap at the pen
\* (the advances before it) plus its bearing, between ymin and ymin + height,
\* in the bounding box of all ink, the maximum where bitmaps overlap
Composed(chars) ==
    LET inked == {i \in DOMAIN chars : chars[i].width > 0 /\ chars[i].height > 0}
        pen(i) == SumOf(SubSeq(chars, 1, i - 1), "advance")
        left(i) == pen(i) + chars[i].xmin
        right(i) == left(i) + chars[i].width
        top(i) == chars[i].ymin + chars[i].height
        Least(S) == CHOOSE v \in S : \A u \in S : v <= u
        Most(S) == CHOOSE v \in S : \A u \in S : u <= v
    IN  IF inked = {} THEN RasterizedGlyph(0, 0, <<>>)
        ELSE LET x0 == Least({left(i) : i \in inked})
                 x1 == Most({right(i) : i \in inked})
                 y0 == Least({chars[i].ymin : i \in inked})
                 y1 == Most({top(i) : i \in inked})
                 w == x1 - x0
                 h == y1 - y0
                 at(i, x, y) ==
                     \* x, y: column from the left edge, row from the top
                     /\ left(i) <= x0 + x /\ x0 + x < right(i)
                     /\ y1 - y <= top(i) /\ y1 - y > chars[i].ymin
                 value(i, x, y) ==
                     chars[i].coverage[((top(i) - (y1 - y)) * chars[i].width)
                                       + (x0 + x - left(i)) + 1]
             IN  RasterizedGlyph(
                     w, h,
                     [dst \in 1..(w * h) |->
                         LET y == (dst - 1) \div w
                             x == (dst - 1) % w
                             vals == {value(i, x, y) :
                                          i \in {j \in inked : at(j, x, y)}}
                         IN  IF vals = {} THEN 0 ELSE Most(vals)])

\* C32: the coverage buffer rasterize_string returns for a string is sized
\* to the bounding box of the ink of all characters, holds each character's
\* coverage at the offset given by the advances before it, its horizontal
\* bearing and its vertical extent, and the maximum where characters overlap.
C32_StringComposition ==
    lob.pc = "rasterized" => lob.glyph = Composed(lob.chars)


(***************************************************************************)
(* The pixels of the bar: the glyphs carry their coverage, the content of  *)
(* the mapping is followed through configure events, wakes of both         *)
(* producers and repaint passes.                                           *)
(***************************************************************************)
\* the sizes of the first configure event: the defaults, a width at which
\* the date slot begins left of column 600, a narrow surface, and heights
\* below 28 that the glyphs do and do not fit on
InkConfigures ==
    { [width |-> 0, height |-> 0],
      [width |-> 1200, height |-> 0],
      [width |-> 50, height |-> 16],
      [width |-> 0, height |-> 14] }

InitInk ==
    /\ ACTIVE_WORKSPACE = 1
    /\ WORKSPACES = [i \in WsIndex |-> i = 1]
    /\ TIME_HOURS \in {0, 14}
    /\ TIME_MINUTES = 0
    \* the date main.rs starts the bus with, or one the poller has stored
    /\ \E d \in {<<0, 0, 0>>, <<3, 11, 26>>} :
           DATE_DAY = d[1] /\ DATE_MONTH = d[2] /\ DATE_YEAR = d[3]
    /\ BATTERY_PERCENT = 100
    /\ BATTERY_STATE \in {3, BatDisabled}
    /\ BATTERY_ESTIMATE_M = 0
    /\ wake_fd = 1
    /\ InitAppState
    /\ InitThreads
    /\ rpc = "poll"
    /\ started = TRUE
    /\ ppc = "tick"
    /\ hpc = "read"
    /\ generation = "app_state"
    /\ glyphs = Some(SampleCache(1))
    /\ \E ev \in InkConfigures : wl_queue = <<ev>>
    /\ configures_left = 0
    /\ InputSplit

\* render thread, poller and the listener reading lines
NextInk ==
    \/ NextContent
    \/ PollerStep
    \/ ReadLine(EventLines)
    \/ EvStoreActive \/ EvMarkActive \/ EvCreate \/ EvDestroy \/ EvPing

SpecInk == InitInk /\ [][NextInk]_vars

\* the values recorded as rendered (RenderSnapshot), as draw_bar's locals
RenderSnapshot ==
    [active_ws |-> last_active_ws, current_ws |-> last_workspaces, i |-> 0,
     h |-> last_h, m |-> last_m,
     day |-> last_day, month |-> last_month, year |-> last_year,
     bat_percent |-> last_bat_percent, bat_state |-> last_bat_state,
     bat_est_m_total |-> last_bat_est_m]

\* the slots a pass over the whole bar paints
FullSlots ==
    {"workspaces"}
    \cup (IF date_slot_x(Unwrap(glyphs)) < width THEN {"date"} ELSE {})
    \cup (IF time_slot_x < width THEN {"time"} ELSE {})
    \cup (IF bat_slot_x < width /\ last_bat_state # BatDisabled
          THEN {"battery"} ELSE {})

RECURSIVE FullRepaint(_, _)
\* the values of RenderSnapshot drawn into a zeroed slice, from slot k on
FullRepaint(slice_in, k) ==
    IF k > 4 THEN slice_in
    ELSE IF SlotOrder[k] \in FullSlots
    THEN FullRepaint(draw_glyphs(slice_in,
                                 slot_placed(RenderSnapshot, SlotOrder[k])),
                     k + 1)
    ELSE FullRepaint(slice_in, k + 1)

\* C33: with glyphs loaded, after every repaint pass the pixel buffer holds
\* what drawing the values recorded in RenderSnapshot into a zeroed buffer
\* of the same size gives, whatever store, configure event and pass came
\* before: repainting a slot neither erases nor leaves behind pixels of
\* another slot.
C33_IncrementalEqualsFull ==
    out.drew /\ IsSome(pixel_data) =>
        Unwrap(pixel_data) = FullRepaint(<<>>, 1)


\* pixel p of the slice lies in one of the rectangles <<x, y, w, h>>
InDamage(p, damage) ==
    \E k \in 1..Len(damage) :
        LET r == damage[k]
        IN  /\ r[1] <= p % width /\ p % width < r[1] + r[3]
            /\ r[2] <= p \div width /\ p \div width < r[2] + r[4]

\* C34: every pixel a repaint pass modifies, in a clear step or by glyph
\* compositing, lies inside one of the damage rectangles the pass returns,
\* whatever the bus holds and however wide the surface is.
C34_WritesInsideDamage ==
    out.drew /\ IsSome(pixel_data) =>
        /\ \A slot \in out.painted :
              \A r \in out.cleared[slot] :
                  \A p \in (r[1] \div 4)..((r[2] \div 4) - 1) :
                      InDamage(p, out.damage)
        /\ \A p \in out.written : InDamage(p, out.damage)


\* C35: whatever width and height the buffer was configured with, 28 rows
\* or fewer, no draw_glyph call of a pass indexes the glyph's coverage past
\* its end or the pixel slice at or beyond width * height * 4.
C35_CompositingInBounds == out.fault \notin {"coverage", "pixels"}


RECURSIVE Advanced(_, _)
\* how far current_x moves over a sequence of draw_char calls
Advanced(g, calls) ==
    IF calls = <<>> THEN 0
    ELSE glyph_of(g, calls[1].glyph).width + calls[1].margin
             + Advanced(g, Tail(calls))

\* C36: for every date and every hour and minute a pass paints, the width
\* date_content_width and time_content_width compute equals the sum of the
\* glyph widths and margins by which the pen advances while the slot is
\* drawn, and is at most date_slot_width and time_slot_width respectively,
\* so that the content lies inside the rectangle that is cleared and
\* reported as damage.
C36_ContentFitsSlot ==
    out.drew =>
        LET g == Unwrap(glyphs)
            l == out.loaded
            date_w == content_width(g, date_content_terms(l.day, l.month, l.year))
            time_w == content_width(g, time_content_terms(l.h, l.m))
        IN  /\ "date" \in out.painted =>
                  /\ date_w = Advanced(g, out.calls.date)
                  /\ date_w <= date_slot_width(g)
            /\ "time" \in out.painted =>
                  /\ time_w = Advanced(g, out.calls.time)
                  /\ time_w <= time_slot_width(g)


\* C37: when a tick of the poller whose clock read succeeded has gone
\* through its clock stores, the first tick after startup included, the
\* hour and minute on the bus are the sampled hour and minute and the day,
\* month and two-digit year on the bus are the sampled date.
C37_ClockTracksWallClock ==
    ppc = "ping" =>
        /\ TIME_HOURS = now.hour
        /\ TIME_MINUTES = now.minute
        /\ DATE_DAY = now.day
        /\ DATE_MONTH = now.month
        /\ DATE_YEAR = now.year


\* the glyphs of a cache
GlyphsOf(cache) ==
    { cache.numbers[d] : d \in 1..10 }
    \cup { cache[n] : n \in DOMAIN cache \ {"numbers"} }

\* the caches are those of the first and of the second load.
\* C38: every glyph of a cache that load_from_atlas returns has a coverage
\* buffer of width * height bytes, whatever the atlas file that passes the
\* validation of its header holds.
C38_LoadedGlyphsWellFormed ==
    \A r \in (IF IsSome(lob.first) THEN {Unwrap(lob.first).cache} ELSE {})
              \cup (IF IsSome(lob.result) THEN {Unwrap(lob.result)} ELSE {}) :
        r.ok =>
            \A glyph \in GlyphsOf(r.val) :
                Len(glyph.coverage) = glyph.width * glyph.height


\* C39: when the helper build that load_or_build starts exits successfully
\* and the font file is not modified meanwhile, the atlas it wrote carries
\* the requested font path and the bit pattern of the requested size, for
\* every requested size, and the load that follows succeeds.
C39_RebuildMakesReloadSucceed ==
    (Returned /\ lob.loads = 2 /\ ~lob.touched) =>
        /\ Header(Unwrap(lob.atlas)).font_path = lob.font_path
        /\ Header(Unwrap(lob.atlas)).size_bits = to_bits(lob.size)
        /\ Unwrap(lob.result).ok

====
